---------------------------- MODULE Spec2Model ----------------------------
(***************************************************************************)
(* Model of the stored-procedure chain executor                            *)
(* (core/db/sp_chain_executor.py, class SPChainExecutor), of the procedure *)
(* invoker (core/db/procedures.py) with its database sessions              *)
(* (core/db/connection.py), of the parameter normalizer                     *)
(* (core/db/sql_normalizer.py) and of the SQL-list and post-state helpers  *)
(* of the tests (tests/helpers/sp_test_utils.py).                          *)
(*                                                                         *)
(* Five specifications: Spec follows one execute_chain call, SpecReuse     *)
(* successive execute_chain calls on the same or on a new executor,        *)
(* SpecInvoker the run_stored_procedure calls of a caller from one         *)
(* database interaction to the next, SpecNormalizer one call of normalize  *)
(* or normalize_parameters, and SpecHarness one call of _run_sql_list,     *)
(* statement by statement, or of _validate_post_state.                     *)
(*                                                                         *)
(* Under Spec, one run of execute_chain on a newly constructed executor is *)
(* a behaviour: Init is the state after __init__ together with the         *)
(* chain_config argument, and every iteration of the for loop is one       *)
(* step of the model.  The stored procedure itself is the environment: the *)
(* response of each call (a result set, or an exception) is chosen         *)
(* nondeterministically.                                                   *)
(***************************************************************************)
EXTENDS Integers, Sequences, FiniteSets, TLC

VARIABLES
    chain_config,       \* the chain_config argument of execute_chain
    pc,                 \* "loop" while the for loop runs, "returned" afterwards
    idx,                \* enumerate() index of the next loop iteration (0-based)
    execution_results,  \* self.execution_results : step label -> result
    chain_data,         \* self.chain_data        : chain key -> value
    base_parameters,    \* self.base_parameters   : parameter name -> value
    outcome,            \* the dictionary returned by execute_chain
    calls,              \* history: one record per loop iteration entered
    executor,           \* identity of the SPChainExecutor instance in use
    returned,           \* history: the outcomes of the earlier execute_chain calls
    caller,             \* who calls run_stored_procedure, and how far it got
    call,               \* the arguments of the run_stored_procedure call
    frame,              \* run_stored_procedure: control position and locals
    trace,              \* history: what was done to the database sessions
    fn_args,            \* a function of the library applied on its own: its
                        \* name and arguments
    fn_value            \* the locals of that application while it runs, and
                        \* what it returned

\* the executor and one execute_chain call on it
chain_vars == <<chain_config, pc, idx, execution_results, chain_data,
                base_parameters, outcome, calls>>

\* successive execute_chain calls
reuse_vars == <<executor, returned>>

\* one run_stored_procedure call after another
invoker_vars == <<caller, call, frame, trace>>

\* one application of a function of the normalizer or of the test helpers
aux_vars == <<fn_args, fn_value>>

vars == <<chain_vars, reuse_vars, invoker_vars, aux_vars>>

(***************************************************************************)
(* Python values.  A value is a record [t, n, s]: t is the Python type,    *)
(* n the number of an int or bool (a float is held in tenths, so 0.5 is    *)
(* n = 5), s the text of a str as a sequence of characters.                *)
(***************************************************************************)
PyNone == [t |-> "none", n |-> 0, s |-> <<>>]

PyBool(b) == [t |-> "bool", n |-> IF b THEN 1 ELSE 0, s |-> <<>>]

PyInt(i) == [t |-> "int", n |-> i, s |-> <<>>]

PyFloat(tenths) == [t |-> "float", n |-> tenths, s |-> <<>>]

PyNaN == [t |-> "nan", n |-> 0, s |-> <<>>]

PyStr(chars) == [t |-> "str", n |-> 0, s |-> chars]

\* float('inf') and float('-inf'): n is the sign
PyInf(sign) == [t |-> "inf", n |-> sign, s |-> <<>>]

\* datetime.date(y, m, d), datetime.datetime(y, m, d, H, M, S) and
\* datetime.time(H, M, S): s holds the fields
PyDate(y, m, d) == [t |-> "date", n |-> 0, s |-> <<y, m, d>>]

PyDateTime(y, m, d, H, M, S) ==
    [t |-> "datetime", n |-> 0, s |-> <<y, m, d, H, M, S>>]

PyTime(H, M, S) == [t |-> "time", n |-> 0, s |-> <<H, M, S>>]

\* a value of a type the normalizer has no rule for and whose comparison
\* has no truth value (an array of several elements): n names the object
PyArray(id) == [t |-> "array", n |-> id, s |-> <<>>]

\* not a value: the exception an expression raised instead of returning
Raised(exc) == [t |-> "raised", n |-> 0, s |-> exc]

EmptyDict == [k \in {} |-> PyNone]

\* dict.update / {**base, **own}: the right operand wins on key collision
Overlay(base, own) ==
    [k \in (DOMAIN base) \cup (DOMAIN own) |->
        IF k \in DOMAIN own THEN own[k] ELSE base[k]]

\* bool(v)
Truthy(v) ==
    CASE v.t = "none"  -> FALSE
      [] v.t \in {"str", "list"} -> v.s # <<>>
      [] v.t = "nan"   -> TRUE
      [] v.t \in {"date", "datetime", "time"} -> TRUE
      [] OTHER         -> v.n # 0

DigitChars == <<"0", "1", "2", "3", "4", "5", "6", "7", "8", "9">>

IsDigit(c) == \E i \in DOMAIN DigitChars : DigitChars[i] = c

DigitVal(c) == (CHOOSE i \in DOMAIN DigitChars : DigitChars[i] = c) - 1

RECURSIVE StripLeft(_)
StripLeft(cs) ==
    IF cs # <<>> /\ Head(cs) = " " THEN StripLeft(Tail(cs)) ELSE cs

RECURSIVE StripRight(_)
StripRight(cs) ==
    IF cs # <<>> /\ cs[Len(cs)] = " "
    THEN StripRight(SubSeq(cs, 1, Len(cs) - 1))
    ELSE cs

\* str.strip()
Strip(cs) == StripRight(StripLeft(cs))

HasSign(cs) == cs # <<>> /\ Head(cs) \in {"+", "-"}

Unsigned(cs) == IF HasSign(cs) THEN Tail(cs) ELSE cs

\* the texts int(str) accepts: blanks, an optional sign, one or more digits
IsIntLiteral(cs) ==
    LET body == Unsigned(Strip(cs))
    IN  body # <<>> /\ \A i \in DOMAIN body : IsDigit(body[i])

RECURSIVE DigitsValue(_)
DigitsValue(ds) ==
    IF ds = <<>> THEN 0
    ELSE 10 * DigitsValue(SubSeq(ds, 1, Len(ds) - 1)) + DigitVal(ds[Len(ds)])

IntLiteralValue(cs) ==
    LET st == Strip(cs)
        mag == DigitsValue(Unsigned(st))
    IN  IF HasSign(st) /\ Head(st) = "-" THEN 0 - mag ELSE mag

\* truncation toward zero of tenths / 10
TruncTenths(n) == IF n >= 0 THEN n \div 10 ELSE 0 - ((0 - n) \div 10)

\* the exception int(v) raises, "" when it returns
IntRaises(v) ==
    CASE v.t = "none" -> "TypeError"
      [] v.t = "nan"  -> "ValueError"
      [] v.t = "inf"  -> "OverflowError"
      [] v.t = "str"  -> IF IsIntLiteral(v.s) THEN "" ELSE "ValueError"
      [] v.t \in {"date", "datetime", "time", "array"} -> "TypeError"
      [] OTHER        -> ""

\* int(v), where it returns
IntOf(v) ==
    CASE v.t = "float" -> TruncTenths(v.n)
      [] v.t = "str"   -> IntLiteralValue(v.s)
      [] OTHER         -> v.n

\* str(e) of a raised exception: one text fragment naming it
ExcMessage(e) == PyStr(<<e>>)

(***************************************************************************)
(* The chain executor's helpers.                                           *)
(***************************************************************************)

\* dict.get(key, default)
Get(d, key, default) == IF key \in DOMAIN d THEN d[key] ELSE default

\* the key of execution_results: f"step_{step_num}"
StepLabel(step_num) == <<"step_", step_num>>

\* variant: a step is numbered by its position, whatever its step field
StepNumByPosition(step_config, i) == i + 1

\* step_config.get("step", idx + 1)
StepNum(step_config, i) == Get(step_config, "step", i + 1)

NoRowsMessage == PyStr(<<"No result rows returned from SP">>)

InsufficientColumnsMessage == PyStr(<<"Result row has insufficient columns">>)

\* variant: a one-column row is judged by its status column alone
_check_step_status_lenient(result) ==
    IF Len(result.rows) = 0
    THEN [exc |-> "", ok |-> FALSE, msg |-> NoRowsMessage]
    ELSE LET row_list == result.rows[1]
             int_status == row_list[1]
             str_message == IF Len(row_list) > 1 THEN row_list[2] ELSE PyStr(<<>>)
         IN  IF ~Truthy(int_status)
             THEN [exc |-> "", ok |-> FALSE, msg |-> str_message]
             ELSE IF IntRaises(int_status) # ""
             THEN [exc |-> IntRaises(int_status), ok |-> FALSE,
                   msg |-> str_message]
             ELSE [exc |-> "", ok |-> IntOf(int_status) # 0,
                   msg |-> str_message]

\* _check_step_status: [exc, ok, msg]; exc names the exception that escapes
\* the function ("" when it returns (ok, msg))
_check_step_status(result) ==
    IF Len(result.rows) = 0
    THEN [exc |-> "", ok |-> FALSE, msg |-> NoRowsMessage]
    ELSE LET row_list == result.rows[1]
         IN  IF Len(row_list) < 2
             THEN [exc |-> "", ok |-> FALSE, msg |-> InsufficientColumnsMessage]
             ELSE LET int_status  == row_list[1]
                      str_message == row_list[2]
                  IN  IF ~Truthy(int_status)
                      THEN [exc |-> "", ok |-> FALSE, msg |-> str_message]
                      ELSE IF IntRaises(int_status) # ""
                      THEN [exc |-> IntRaises(int_status), ok |-> FALSE,
                            msg |-> str_message]
                      ELSE [exc |-> "", ok |-> IntOf(int_status) # 0,
                            msg |-> str_message]

\* variant: a boolean counts as the integer it is
IsPositiveNumberOrBool(cell) ==
    /\ cell.t \in {"int", "float", "bool"}
    /\ cell.n > 0

\* isinstance(cell, (int, float)) and not isinstance(cell, bool) and cell > 0
\* (a NaN is a float and is not > 0)
IsPositiveNumber(cell) ==
    /\ cell.t \in {"int", "float"}
    /\ cell.n > 0

\* the backwards scan: the column the loop stops at, 0 when it runs out
RECURSIVE ScanBackwards(_, _)
ScanBackwards(row_list, col) ==
    IF col = 0 THEN 0
    ELSE IF IsPositiveNumber(row_list[col]) THEN col
    ELSE ScanBackwards(row_list, col - 1)

\* variant: a row without an id stores None under the chain key
_extract_outputs_storing_none(result, output_mapping, cd) ==
    IF Len(output_mapping) = 0 THEN cd
    ELSE IF Len(result.rows) = 0 THEN cd
    ELSE LET row_list == result.rows[1]
             col      == ScanBackwards(row_list, Len(row_list))
         IN  Overlay(cd, output_mapping[1][2] :>
                             IF col = 0 THEN PyNone ELSE row_list[col])

\* variant: the extracted value replaces chain_data instead of joining it
_extract_outputs_replacing(result, output_mapping, cd) ==
    IF Len(output_mapping) = 0 THEN cd
    ELSE IF Len(result.rows) = 0 THEN cd
    ELSE LET row_list == result.rows[1]
             col      == ScanBackwards(row_list, Len(row_list))
         IN  IF col = 0 THEN cd
             ELSE output_mapping[1][2] :> row_list[col]

\* _extract_outputs: chain_data after the call.  output_mapping is the
\* dictionary as its sequence of (param_name, chain_var) items; the return
\* statement sits inside the loop over the items, so only the first item is
\* stored.
_extract_outputs(result, output_mapping, cd) ==
    IF Len(output_mapping) = 0 THEN cd
    ELSE IF Len(result.rows) = 0 THEN cd
    ELSE LET row_list == result.rows[1]
             col      == ScanBackwards(row_list, Len(row_list))
         IN  IF col = 0 THEN cd
             ELSE Overlay(cd, output_mapping[1][2] :> row_list[col])

\* variant: a missing chain key stores None (chain_data.get(chain_var))
_apply_input_mapping_storing_none(params, input_mapping, cd) ==
    Overlay(params, [p \in DOMAIN input_mapping |->
                        Get(cd, input_mapping[p], PyNone)])

\* _apply_input_mapping
_apply_input_mapping(params, input_mapping, cd) ==
    LET mapped == {p \in DOMAIN input_mapping : input_mapping[p] \in DOMAIN cd}
    IN  Overlay(params, [p \in mapped |-> cd[input_mapping[p]]])

\* variant: a later step inherits from the step just before it
_build_parameters_from_previous_step(step_config, step_num, base, cd) ==
    LET own    == Get(step_config, "parameters", EmptyDict)
        prev   == IF Len(calls) = 0 THEN base ELSE calls[Len(calls)].params
        params == IF step_num = 1 THEN own ELSE Overlay(prev, own)
    IN  _apply_input_mapping(params,
                             Get(step_config, "input_mapping", EmptyDict), cd)

\* _build_parameters_with_inheritance
_build_parameters_with_inheritance(step_config, step_num, base, cd) ==
    LET own    == Get(step_config, "parameters", EmptyDict)
        params == IF step_num = 1 THEN own ELSE Overlay(base, own)
    IN  _apply_input_mapping(params,
                             Get(step_config, "input_mapping", EmptyDict), cd)

(***************************************************************************)
(* Inputs: the chain configurations and the stored procedure's responses.  *)
(***************************************************************************)
MaxSteps == 3

ParamA == "@a"

ParamB == "@b"

\* a step_config: a dictionary holding some of the keys step, sp_name,
\* parameters, input_mapping, output_mapping
StepConfig(base, extra) == base @@ extra

Named == "sp_name" :> "sp"

ParameterSets ==
    { EmptyDict,
      ParamA :> PyInt(10),
      (ParamA :> PyInt(20)) @@ (ParamB :> PyInt(20)) }

\* two-entry output mappings, as their items in insertion order
FanOutMapping == << <<ParamA, "k1">>, <<ParamB, "k2">> >>

FanOutMappingReversed == << <<ParamB, "k2">>, <<ParamA, "k1">> >>

\* how a step is numbered: by position, or explicitly 1 or 2 (an explicitly
\* numbered step carries a parameter of its own)
Numberings ==
    { EmptyDict,
      ("step" :> 1) @@ ("parameters" :> (ParamA :> PyInt(10))),
      ("step" :> 2) @@ ("parameters" :> (ParamB :> PyInt(20))) }

\* steps that differ in their numbering and in whether they map an output,
\* and a malformed step without sp_name
NumberingSteps ==
    { StepConfig(Named, st @@ om) :
        st \in Numberings,
        om \in {EmptyDict, "output_mapping" :> << <<ParamA, "k1">> >>} }
    \cup { EmptyDict }

\* steps numbered by position that differ in their parameters: plain steps
\* without input mapping, and steps that inject chain key k1 into @b
ParameterSteps ==
    { StepConfig(Named, ("parameters" :> ps)
                        @@ ("output_mapping" :> FanOutMapping)) :
        ps \in ParameterSets }
    \cup
    { StepConfig(Named, ("parameters" :> ps)
                        @@ ("input_mapping" :> (ParamB :> "k1"))
                        @@ ("output_mapping" :> FanOutMappingReversed)) :
        ps \in ParameterSets }

ChainsOver(steps) == UNION { [1..n -> steps] : n \in 0..MaxSteps }

Chains == ChainsOver(NumberingSteps) \cup ChainsOver(ParameterSteps)

FirstRows ==
    { << PyInt(1) >>,
      << PyInt(0), PyStr(<<"duplicate name">>) >>,
      << PyInt(1), PyStr(<<"created">>), PyInt(7) >>,
      << PyInt(1), PyStr(<<"OK">>), PyInt(0) >>,
      << PyBool(TRUE), PyStr(<<"OK">>) >>,
      << PyFloat(5), PyStr(<<"half">>), PyInt(7) >>,
      << PyStr(<<"a", "b", "c">>), PyStr(<<"m">>) >> }

\* what run_stored_procedure(sp_name, params, capture_output_params=True)
\* does: it raises (exc), or returns {'rows': ..., 'output_params': {}}
Responses ==
    { [exc |-> "DatabaseError", rows |-> <<>>], [exc |-> "", rows |-> <<>>] }
    \cup { [exc |-> "", rows |-> <<r>>] : r \in FirstRows }

(***************************************************************************)
(* execute_chain.                                                          *)
(***************************************************************************)
\* run_stored_procedure is not followed: the call is the environment's
\* response
NoInvoker ==
    /\ caller = [kind |-> "none"]
    /\ call = [shape |-> "none"]
    /\ frame = [at |-> "none"]
    /\ trace = <<>>
    /\ fn_args = [fn |-> "none"]
    /\ fn_value = [done |-> FALSE]

Init ==
    /\ chain_config \in Chains
    /\ pc = "loop"
    /\ idx = 0
    /\ execution_results = EmptyDict
    /\ chain_data = EmptyDict
    /\ base_parameters = EmptyDict
    /\ outcome = EmptyDict
    /\ calls = <<>>
    /\ executor = 1
    /\ returned = <<>>
    /\ NoInvoker

\* one iteration of the for loop up to the status check: what it computed
\* and the exception that ended it, if any
Iteration(step_config, i, resp) ==
    LET step_num == StepNum(step_config, i)
        params   == _build_parameters_with_inheritance(
                        step_config, step_num, base_parameters, chain_data)
        result   == [rows |-> resp.rows, output_params |-> EmptyDict]
        status   == _check_step_status(result)
    IN  IF "sp_name" \notin DOMAIN step_config
        THEN [exc |-> "KeyError", invoked |-> FALSE, recorded |-> FALSE,
              step_num |-> step_num, params |-> EmptyDict, result |-> result,
              ok |-> FALSE, msg |-> PyNone]
        ELSE IF resp.exc # ""
        THEN [exc |-> resp.exc, invoked |-> TRUE, recorded |-> FALSE,
              step_num |-> step_num, params |-> params, result |-> result,
              ok |-> FALSE, msg |-> PyNone]
        ELSE [exc |-> status.exc, invoked |-> TRUE, recorded |-> TRUE,
              step_num |-> step_num, params |-> params, result |-> result,
              ok |-> status.ok, msg |-> status.msg]

\* the history entry of an iteration
CallRecord(it, i, verdict) ==
    [idx |-> i, step_num |-> it.step_num, invoked |-> it.invoked,
     params |-> it.params, result |-> it.result, verdict |-> verdict,
     exc |-> it.exc, recorded |-> it.recorded,
     base |-> base_parameters, chain_data |-> chain_data]

\* self.execution_results[f"step_{step_num}"] = result
Recorded(it) ==
    IF it.recorded
    THEN Overlay(execution_results, StepLabel(it.step_num) :> it.result)
    ELSE execution_results

\* The dictionaries an iteration handles, as objects: the parameters of the
\* entry at a position of chain_config, or an object made during the call.
EntryObject(i) == [kind |-> "entry", at |-> i]

FreshObject == [kind |-> "fresh", at |-> 0]

\* variant: the dictionary itself is handed on
Shared(object) == object

\* dict.copy() and copy.deepcopy(): another object
Copied(object) == FreshObject

RECURSIVE ParamsObject(_, _)
\* params of the k-th iteration of the history cs: for step 1 a copy of the
\* entry's parameters (the {} of .get when it has none), otherwise a deep
\* copy of self.base_parameters, which is the deep copy that the last
\* successful step numbered 1 made of its mapped_params (the {} of
\* __init__ before any)
ParamsObject(cs, k) ==
    LET snapshots == {j \in 1..(k - 1) : /\ cs[j].verdict = "succeeded"
                                          /\ cs[j].step_num = 1}
        last == CHOOSE j \in snapshots : \A l \in snapshots : l <= j
    IN  IF cs[k].step_num = 1
        THEN IF "parameters" \in DOMAIN chain_config[cs[k].idx + 1]
             THEN Copied(EntryObject(cs[k].idx))
             ELSE FreshObject
        ELSE IF snapshots = {} THEN FreshObject
        ELSE Copied(Copied(Copied(ParamsObject(cs, last))))

\* chain_config as the iteration that ends the history cs leaves it:
\* params.update(step_overrides) and mapped_params[param_name] = new_value
\* write into params and its copy mapped_params, and the entries change
\* where one of those objects is an entry's own dictionary
WrittenConfig(cs) ==
    LET k == Len(cs)
        mapped_params == Copied(ParamsObject(cs, k))
    IN  IF cs[k].invoked /\ mapped_params.kind = "entry"
        THEN [chain_config EXCEPT
                 ![mapped_params.at + 1] =
                     [@ EXCEPT !["parameters"] = cs[k].params]]
        ELSE chain_config

\* variant: no except clause, the exception leaves execute_chain
StepRaisesUncaught ==
    /\ pc = "loop"
    /\ idx < Len(chain_config)
    /\ \E resp \in Responses :
         LET it == Iteration(chain_config[idx + 1], idx, resp)
         IN  /\ it.exc # ""
             /\ execution_results' = Recorded(it)
             /\ calls' = Append(calls, CallRecord(it, idx, "raised"))
    /\ pc' = "raised"
    /\ UNCHANGED <<chain_config, idx, chain_data, base_parameters, outcome>>
    /\ UNCHANGED <<reuse_vars, invoker_vars, aux_vars>>

\* an exception escapes the loop body: the except clause returns
StepRaises ==
    /\ pc = "loop"
    /\ idx < Len(chain_config)
    /\ \E resp \in Responses :
         LET it == Iteration(chain_config[idx + 1], idx, resp)
         IN  /\ it.exc # ""
             /\ execution_results' = Recorded(it)
             /\ calls' = Append(calls, CallRecord(it, idx, "raised"))
             /\ outcome' = [success |-> FALSE,
                            error |-> ExcMessage(it.exc),
                            partial_results |-> execution_results',
                            chain_data |-> chain_data]
    /\ pc' = "returned"
    /\ chain_config' = WrittenConfig(calls')
    /\ UNCHANGED <<idx, chain_data, base_parameters>>
    /\ UNCHANGED <<reuse_vars, invoker_vars, aux_vars>>

\* variant: the snapshot and the extraction come before the status check
StepFailsAfterExtracting ==
    /\ pc = "loop"
    /\ idx < Len(chain_config)
    /\ \E resp \in Responses :
         LET step_config == chain_config[idx + 1]
             it == Iteration(step_config, idx, resp)
         IN  /\ it.exc = ""
             /\ ~it.ok
             /\ execution_results' = Recorded(it)
             /\ calls' = Append(calls, CallRecord(it, idx, "failed"))
             /\ base_parameters' =
                    IF it.step_num = 1 THEN it.params ELSE base_parameters
             /\ chain_data' =
                    IF "output_mapping" \in DOMAIN step_config
                    THEN _extract_outputs(it.result,
                                          step_config["output_mapping"],
                                          chain_data)
                    ELSE chain_data
             /\ outcome' = [success |-> FALSE,
                            error |-> it.msg,
                            failed_step |-> it.step_num,
                            partial_results |-> execution_results',
                            chain_data |-> chain_data']
    /\ pc' = "returned"
    /\ UNCHANGED <<chain_config, idx>>
    /\ UNCHANGED <<reuse_vars, invoker_vars, aux_vars>>

\* variant: a failed status check is logged and the loop goes on
StepFailsGoingOn ==
    /\ pc = "loop"
    /\ idx < Len(chain_config)
    /\ \E resp \in Responses :
         LET it == Iteration(chain_config[idx + 1], idx, resp)
         IN  /\ it.exc = ""
             /\ ~it.ok
             /\ execution_results' = Recorded(it)
             /\ calls' = Append(calls, CallRecord(it, idx, "failed"))
    /\ idx' = idx + 1
    /\ UNCHANGED <<chain_config, pc, chain_data, base_parameters, outcome>>
    /\ UNCHANGED <<reuse_vars, invoker_vars, aux_vars>>

\* the status check fails: the chain stops and reports the step
StepFails ==
    /\ pc = "loop"
    /\ idx < Len(chain_config)
    /\ \E resp \in Responses :
         LET it == Iteration(chain_config[idx + 1], idx, resp)
         IN  /\ it.exc = ""
             /\ ~it.ok
             /\ execution_results' = Recorded(it)
             /\ calls' = Append(calls, CallRecord(it, idx, "failed"))
             /\ outcome' = [success |-> FALSE,
                            error |-> it.msg,
                            failed_step |-> it.step_num,
                            partial_results |-> execution_results',
                            chain_data |-> chain_data]
    /\ pc' = "returned"
    /\ chain_config' = WrittenConfig(calls')
    /\ UNCHANGED <<idx, chain_data, base_parameters>>
    /\ UNCHANGED <<reuse_vars, invoker_vars, aux_vars>>

\* the status check passes: snapshot step 1, extract outputs, go on
StepSucceeds ==
    /\ pc = "loop"
    /\ idx < Len(chain_config)
    /\ \E resp \in Responses :
         LET step_config == chain_config[idx + 1]
             it == Iteration(step_config, idx, resp)
         IN  /\ it.exc = ""
             /\ it.ok
             /\ execution_results' = Recorded(it)
             /\ calls' = Append(calls, CallRecord(it, idx, "succeeded"))
             /\ base_parameters' =
                    IF it.step_num = 1 THEN it.params ELSE base_parameters
             /\ chain_data' =
                    IF "output_mapping" \in DOMAIN step_config
                    THEN _extract_outputs(it.result,
                                          step_config["output_mapping"],
                                          chain_data)
                    ELSE chain_data
    /\ idx' = idx + 1
    /\ chain_config' = WrittenConfig(calls')
    /\ UNCHANGED <<pc, outcome>>
    /\ UNCHANGED <<reuse_vars, invoker_vars, aux_vars>>

\* the loop is exhausted: the chain completed
ChainCompletes ==
    /\ pc = "loop"
    /\ idx = Len(chain_config)
    /\ outcome' = [success |-> TRUE,
                   results |-> execution_results,
                   chain_data |-> chain_data]
    /\ pc' = "returned"
    /\ UNCHANGED <<chain_config, idx, execution_results, chain_data,
                   base_parameters, calls>>
    /\ UNCHANGED <<reuse_vars, invoker_vars, aux_vars>>

Next == StepRaises \/ StepFails \/ StepSucceeds \/ ChainCompletes

Spec == Init /\ [][Next]_vars

\* execute_chain runs in one thread that nothing suspends: while the loop
\* has a step to take, or the return to make, it takes it
\* and its chains are of two kinds of entries: a step that maps an output,
\* and a malformed entry without sp_name
TerminationSteps ==
    { StepConfig(Named, "output_mapping" :> << <<ParamA, "k1">> >>),
      EmptyDict }

InitFair ==
    /\ chain_config \in ChainsOver(TerminationSteps)
    /\ pc = "loop"
    /\ idx = 0
    /\ execution_results = EmptyDict
    /\ chain_data = EmptyDict
    /\ base_parameters = EmptyDict
    /\ outcome = EmptyDict
    /\ calls = <<>>
    /\ executor = 1
    /\ returned = <<>>
    /\ NoInvoker

SpecFair == InitFair /\ [][Next]_vars /\ WF_vars(Next)

(***************************************************************************)
(* Properties.  They are stated over the history `calls` (what each loop   *)
(* iteration was given and how it ended) and the returned outcome.         *)
(***************************************************************************)
CallIds == 1..Len(calls)

ConfigOf(c) == chain_config[c.idx + 1]

\* ChainData as the i-th iteration left it
ChainDataAfter(i) == IF i < Len(calls) THEN calls[i + 1].chain_data ELSE chain_data

\* the iterations whose procedure call returned a result
Executed == {i \in CallIds : calls[i].recorded}

\* the message a failing status check reports for a result
FailureMessage(result) ==
    IF Len(result.rows) = 0 THEN NoRowsMessage
    ELSE IF Len(result.rows[1]) < 2 THEN InsufficientColumnsMessage
    ELSE result.rows[1][2]

\* C1: Chain abort.  When a step fails its status check, it is the last step
\* invoked, and the outcome has success = false, failed_step = the failing
\* step's number, error = the failing step's message, and partial_results
\* holds exactly the results of the steps executed up to and including the
\* failing one: one entry per executed step, under that step's label.
C1_ChainAbort ==
    \A i \in CallIds :
        calls[i].verdict = "failed" =>
            /\ i = Len(calls)
            /\ pc = "returned"
            /\ outcome.success = FALSE
            /\ "failed_step" \in DOMAIN outcome
            /\ outcome.failed_step = calls[i].step_num
            /\ outcome.error = FailureMessage(calls[i].result)
            /\ DOMAIN outcome.partial_results =
                   {StepLabel(calls[j].step_num) : j \in Executed}
            /\ Cardinality(DOMAIN outcome.partial_results) = Cardinality(Executed)
            /\ \A j \in Executed :
                   outcome.partial_results[StepLabel(calls[j].step_num)]
                       = calls[j].result

OwnParameters(c) == Get(ConfigOf(c), "parameters", EmptyDict)

InputMappingOf(c) == Get(ConfigOf(c), "input_mapping", EmptyDict)

\* the parameters this step's input mapping injects: mapped to a chain key
\* that ChainData held when the step was built
Injected(c) ==
    {p \in DOMAIN InputMappingOf(c) : InputMappingOf(c)[p] \in DOMAIN c.chain_data}

\* the parameters of the latest step numbered 1 that succeeded before
\* iteration i (empty when there is none)
StepOneSnapshot(i) ==
    LET ones == {j \in 1..(i - 1) :
                    calls[j].step_num = 1 /\ calls[j].verdict = "succeeded"}
    IN  IF ones = {} THEN EmptyDict
        ELSE calls[CHOOSE j \in ones : \A k \in ones : k <= j].params

\* C2: Inheritance from step 1 only.  Every step whose number is not 1 is
\* invoked with the snapshot of step 1's parameters overlaid with its own
\* parameters (own value wins), apart from what its own input mapping
\* injects; so nothing an intermediate step overrode or injected reaches a
\* later step.
C2_InheritFromStepOne ==
    \A i \in CallIds :
        (calls[i].invoked /\ calls[i].step_num # 1) =>
            LET c    == calls[i]
                own  == OwnParameters(c)
                base == StepOneSnapshot(i)
            IN  /\ DOMAIN c.params =
                       (DOMAIN base) \cup (DOMAIN own) \cup Injected(c)
                /\ \A p \in (DOMAIN c.params) \ Injected(c) :
                       c.params[p] = IF p \in DOMAIN own THEN own[p] ELSE base[p]

\* an intermediate step overrode one parameter and injected another, and a
\* later step was invoked without either of them
C2_Witness ==
    \E k, n \in CallIds :
        /\ k < n
        /\ calls[k].step_num # 1 /\ calls[n].step_num # 1
        /\ calls[k].invoked /\ calls[n].invoked
        /\ StepOneSnapshot(k) # EmptyDict
        /\ ParamB \in Injected(calls[k])
        /\ ParamB \notin DOMAIN calls[n].params
        /\ ParamA \in DOMAIN OwnParameters(calls[k])
        /\ ParamA \in DOMAIN calls[n].params
        /\ calls[n].params[ParamA] # calls[k].params[ParamA]

\* the parameters as built before the input mapping is applied
BuiltBeforeMapping(c) ==
    IF c.step_num = 1 THEN OwnParameters(c)
    ELSE Overlay(c.base, OwnParameters(c))

\* C3: Input mapping.  For each (paramName, chainKey) of a step's input
\* mapping: if chainKey is in ChainData when the step is built, the step is
\* invoked with paramName = ChainData[chainKey]; otherwise paramName keeps
\* the value it had after inheritance/override (or stays absent); in both
\* cases the step is invoked.
C3_InputMapping ==
    \A i \in CallIds :
        LET c  == calls[i]
            im == InputMappingOf(c)
            b  == BuiltBeforeMapping(c)
        IN  "sp_name" \in DOMAIN ConfigOf(c) =>
                /\ c.invoked
                /\ \A p \in DOMAIN im :
                       IF im[p] \in DOMAIN c.chain_data
                       THEN /\ p \in DOMAIN c.params
                            /\ c.params[p] = c.chain_data[im[p]]
                       ELSE /\ (p \in DOMAIN c.params) = (p \in DOMAIN b)
                            /\ p \in DOMAIN b => c.params[p] = b[p]

\* one step was invoked with an injected value replacing its own value, and
\* one step whose chain key was missing was invoked with its value kept
C3_Witness ==
    \E i, j \in CallIds :
        /\ calls[i].invoked /\ calls[j].invoked
        /\ \E p \in Injected(calls[i]) :
               /\ p \in DOMAIN OwnParameters(calls[i])
               /\ calls[i].params[p] # OwnParameters(calls[i])[p]
        /\ \E p \in (DOMAIN InputMappingOf(calls[j])) \ Injected(calls[j]) :
               /\ p \in DOMAIN calls[j].params
               /\ calls[j].params[p] = BuiltBeforeMapping(calls[j])[p]

FirstRow(c) == c.result.rows[1]

OutputMappingOf(c) == Get(ConfigOf(c), "output_mapping", <<>>)

\* the status code is non-null, truthy and numerically nonzero
NonNullTruthyNonzero(code) ==
    /\ code.t # "none"
    /\ Truthy(code)
    /\ code.n # 0

\* C4: Status check verdict.  For a first row of two or more columns the
\* check always yields a verdict (success or failure, never an exception);
\* for a null, boolean, integer or fractional status code the step succeeds
\* iff the code is non-null, truthy and numerically nonzero; and a failing
\* step reports column 1 as its message.
C4_StatusVerdict ==
    \A i \in Executed :
        (Len(calls[i].result.rows) > 0 /\ Len(FirstRow(calls[i])) >= 2) =>
            LET code == FirstRow(calls[i])[1]
            IN  /\ calls[i].verdict \in {"succeeded", "failed"}
                /\ code.t \in {"none", "bool", "int", "float"} =>
                       ((calls[i].verdict = "succeeded") = NonNullTruthyNonzero(code))
                /\ calls[i].verdict = "failed" =>
                       outcome.error = FirstRow(calls[i])[2]

\* C5: Malformed status row.  A step whose call returns no row, or a first
\* row of fewer than 2 columns, fails with the synthesized message, and the
\* chain aborts there with failed_step set to that step.
C5_MalformedStatusRow ==
    \A i \in Executed :
        LET rows == calls[i].result.rows
        IN  (Len(rows) = 0 \/ Len(rows[1]) < 2) =>
                /\ calls[i].verdict = "failed"
                /\ i = Len(calls)
                /\ pc = "returned"
                /\ outcome.success = FALSE
                /\ "failed_step" \in DOMAIN outcome
                /\ outcome.failed_step = calls[i].step_num
                /\ outcome.error = IF Len(rows) = 0 THEN NoRowsMessage
                                   ELSE InsufficientColumnsMessage

\* a later step of a chain returned a one-column row, and an earlier chain
\* step had succeeded
C5_Witness ==
    \E i \in Executed :
        /\ i > 1
        /\ Len(calls[i].result.rows) > 0
        /\ Len(FirstRow(calls[i])) < 2
        /\ pc = "returned"

IsPositiveNonBoolean(cell) == cell.t \in {"int", "float"} /\ cell.n > 0

\* the rightmost of the given columns that holds a strictly positive
\* non-boolean number, 0 when none does
RightmostPositive(row, cols) ==
    LET hits == {c \in cols : IsPositiveNonBoolean(row[c])}
    IN  IF hits = {} THEN 0 ELSE CHOOSE c \in hits : \A d \in hits : d <= c

\* the columns after the status code and the message
PayloadColumns(row) == 3..Len(row)

AllColumns(row) == 1..Len(row)

\* the successful steps that declare a non-empty output mapping
Extracting ==
    {i \in CallIds : /\ calls[i].verdict = "succeeded"
                     /\ Len(OutputMappingOf(calls[i])) > 0}

\* C6: Output extraction value.  After a successful step with an output
\* mapping, the value stored is the rightmost strictly positive non-boolean
\* number of the row's payload; row (1, "OK", 42) stores 42, and row
\* (1, "OK", 0) stores nothing and leaves ChainData unchanged.
C6_ExtractionValue ==
    \A i \in Extracting :
        LET row == FirstRow(calls[i])
            col == RightmostPositive(row, PayloadColumns(row))
        IN  IF col = 0
            THEN ChainDataAfter(i) = calls[i].chain_data
            ELSE \E j \in 1..Len(OutputMappingOf(calls[i])) :
                    LET key == OutputMappingOf(calls[i])[j][2]
                    IN  /\ key \in DOMAIN ChainDataAfter(i)
                        /\ ChainDataAfter(i)[key] = row[col]

\* C7: Output mapping fan-out.  When a value is extracted from a successful
\* step's first row, every chain key named in the step's output mapping
\* holds that value afterwards.
C7_FanOut ==
    \A i \in Extracting :
        LET row == FirstRow(calls[i])
            col == RightmostPositive(row, AllColumns(row))
        IN  col # 0 =>
                \A j \in 1..Len(OutputMappingOf(calls[i])) :
                    LET key == OutputMappingOf(calls[i])[j][2]
                    IN  /\ key \in DOMAIN ChainDataAfter(i)
                        /\ ChainDataAfter(i)[key] = row[col]

\* the chain went on after iteration i: a later iteration was entered, or
\* the loop is still running, or i was the last step and the chain completed
WentOn(i) ==
    \/ i < Len(calls)
    \/ pc = "loop"
    \/ /\ pc = "returned"
       /\ outcome.success
       /\ calls[i].idx + 1 = Len(chain_config)

\* C8: Failed extraction is not a step failure.  A step whose status check
\* passes and that declares an output mapping, but whose first row holds no
\* value to extract, leaves ChainData unchanged, counts as succeeded, and
\* the chain goes on.
C8_FailedExtractionNotFailure ==
    \A i \in Executed :
        LET c      == calls[i]
            status == _check_step_status(c.result)
        IN  (/\ status.exc = "" /\ status.ok
             /\ "output_mapping" \in DOMAIN ConfigOf(c)
             /\ RightmostPositive(FirstRow(c), AllColumns(FirstRow(c))) = 0) =>
                /\ c.verdict = "succeeded"
                /\ ChainDataAfter(i) = c.chain_data
                /\ WentOn(i)

\* a successful step with an output mapping extracted nothing while
\* ChainData was not empty, and the next step was invoked
C8_Witness ==
    \E i \in Extracting :
        /\ RightmostPositive(FirstRow(calls[i]), AllColumns(FirstRow(calls[i]))) = 0
        /\ calls[i].chain_data # EmptyDict
        /\ i < Len(calls)
        /\ calls[i + 1].invoked

\* C9: ChainData is monotone.  Its key set never shrinks from one step to
\* the next, and when the chain aborts (failed step or exception) the
\* returned chain_data holds every key stored by the steps that succeeded,
\* each with the value of the last step that stored it.
C9_ChainDataMonotone ==
    /\ \A i \in CallIds :
           /\ DOMAIN calls[i].chain_data \subseteq DOMAIN ChainDataAfter(i)
           /\ calls[i].verdict # "succeeded" => ChainDataAfter(i) = calls[i].chain_data
    /\ (pc = "returned" /\ ~outcome.success) =>
           \A i \in CallIds : \A k \in DOMAIN ChainDataAfter(i) :
               /\ k \in DOMAIN outcome.chain_data
               /\ (\A j \in (i + 1)..Len(calls) :
                       ChainDataAfter(j)[k] = calls[j].chain_data[k])
                   => outcome.chain_data[k] = ChainDataAfter(i)[k]

\* a chain aborted after two of its steps had stored different keys
C9_Witness ==
    /\ pc = "returned"
    /\ ~outcome.success
    /\ \E i, j \in CallIds :
           /\ i < j
           /\ calls[i].chain_data = EmptyDict
           /\ DOMAIN ChainDataAfter(i) # {}
           /\ DOMAIN ChainDataAfter(j) # DOMAIN calls[j].chain_data
           /\ outcome.chain_data = ChainDataAfter(j)

\* the results mapping as the executed steps leave it: under each label the
\* result of the last executed step with that label
Accumulated ==
    [l \in {StepLabel(calls[j].step_num) : j \in Executed} |->
        LET same == {j \in Executed : StepLabel(calls[j].step_num) = l}
        IN  calls[CHOOSE j \in same : \A k \in same : k <= j].result]

\* C10: Exceptions stop at the chain boundary.  If building, invoking or
\* checking a step raises, execute_chain still returns: the outcome has
\* success = false, error = the exception's message, the partial_results
\* and chain_data accumulated so far, and no later step is invoked.
C10_ExceptionsStopAtBoundary ==
    /\ pc \in {"loop", "returned"}
    /\ \A i \in CallIds :
           calls[i].verdict = "raised" =>
               /\ i = Len(calls)
               /\ pc = "returned"
               /\ outcome.success = FALSE
               /\ outcome.error = ExcMessage(calls[i].exc)
               /\ outcome.partial_results = Accumulated
               /\ outcome.chain_data = calls[i].chain_data

\* the status check of a later step raised after an earlier step had stored
\* a chain key: the results of both steps and the key are returned
C10_Witness ==
    \E i \in Executed :
        /\ i > 1
        /\ calls[i].verdict = "raised"
        /\ calls[i].chain_data # EmptyDict
        /\ Cardinality(DOMAIN outcome.partial_results) = i

\* C11: Every chain failure names its step.  Every returned outcome with
\* success = false carries an error message and failed_step, the number of
\* the step at which the failure occurred, on the status-row path and on
\* the exception path alike.
C11_FailureNamesStep ==
    (pc = "returned" /\ ~outcome.success) =>
        /\ "error" \in DOMAIN outcome
        /\ "failed_step" \in DOMAIN outcome
        /\ outcome.failed_step = calls[Len(calls)].step_num

\* C12: One StepResult per executed step.  At every point of the execution
\* the results mapping holds exactly one result for each step whose
\* invocation has returned, under that step's label, and the returned
\* outcome holds that mapping.
C12_OneResultPerStep ==
    /\ DOMAIN execution_results = {StepLabel(calls[j].step_num) : j \in Executed}
    /\ Cardinality(DOMAIN execution_results) = Cardinality(Executed)
    /\ \A j \in Executed :
           execution_results[StepLabel(calls[j].step_num)] = calls[j].result
    /\ pc = "returned" =>
           IF outcome.success THEN outcome.results = execution_results
           ELSE outcome.partial_results = execution_results

\* BaseParameters has been created: a step numbered 1 has succeeded
BaseCreated ==
    \E j \in CallIds : calls[j].step_num = 1 /\ calls[j].verdict = "succeeded"

\* C13: BaseParameters is immutable after creation.  It is created once,
\* by step 1, and no later step changes its contents.
C13_BaseImmutable == [][BaseCreated => base_parameters' = base_parameters]_vars

(***************************************************************************)
(* Successive execute_chain calls.  A caller that got an outcome calls     *)
(* execute_chain again, on the executor it has or on a newly constructed   *)
(* one.  The outcome dictionary holds the executor's own execution_results *)
(* and chain_data dictionaries, not copies of them, so what the caller     *)
(* reads in an outcome follows what its executor does later.               *)
(***************************************************************************)
MaxRuns == 2

\* SPChainExecutor.__init__: the attributes of a new executor
__init__ ==
    [execution_results |-> EmptyDict,
     chain_data        |-> EmptyDict,
     base_parameters   |-> EmptyDict]

PlainStep ==
    StepConfig(Named, ("parameters" :> (ParamA :> PyInt(10)))
                      @@ ("output_mapping" :> FanOutMapping))

InjectingStep ==
    StepConfig(Named, ("parameters" :> EmptyDict)
                      @@ ("input_mapping" :> (ParamB :> "k1"))
                      @@ ("output_mapping" :> FanOutMappingReversed))

\* the chains a caller runs one after another
ReuseChains ==
    { <<>>, <<PlainStep>>, <<InjectingStep>>, <<PlainStep, InjectingStep>> }

\* an outcome as its holder reads it while its executor is still in use:
\* the 'results' / 'partial_results' and 'chain_data' entries are the
\* executor's dictionaries
SeenNow(o) ==
    [k \in DOMAIN o |->
        CASE k \in {"results", "partial_results"} -> execution_results
          [] k = "chain_data"                      -> chain_data
          [] OTHER                                 -> o[k]]

\* an earlier outcome as its holder reads it now
OutcomeNow(r) == IF r.executor = executor THEN SeenNow(r.outcome) ELSE r.seen

\* the caller keeps the outcome it got
Kept ==
    Append(returned,
           [outcome |-> outcome, executor |-> executor, seen |-> outcome])

\* execute_chain is entered with the next chain_config
Entered ==
    /\ pc = "returned"
    /\ Len(returned) + 1 < MaxRuns
    /\ chain_config' \in ReuseChains
    /\ pc' = "loop"
    /\ idx' = 0
    /\ outcome' = EmptyDict
    /\ calls' = <<>>

\* execute_chain is called again on the same executor: its attributes are
\* what the previous call left
CallAgainSameExecutor ==
    /\ Entered
    /\ returned' = Kept
    /\ UNCHANGED <<execution_results, chain_data, base_parameters, executor>>
    /\ UNCHANGED <<invoker_vars, aux_vars>>

\* variant: the dictionaries are attributes of the class, shared by every
\* instance
CallOnNewExecutorSharingState ==
    /\ Entered
    /\ returned' = Kept
    /\ executor' = executor + 1
    /\ UNCHANGED <<execution_results, chain_data, base_parameters>>
    /\ UNCHANGED <<invoker_vars, aux_vars>>

\* SPChainExecutor(connection).execute_chain(...): a new executor; the
\* dictionaries of the old one are not written any more
CallOnNewExecutor ==
    /\ Entered
    /\ returned' =
           [i \in DOMAIN Kept |->
               [Kept[i] EXCEPT !.seen = IF Kept[i].executor = executor
                                        THEN SeenNow(Kept[i].outcome)
                                        ELSE @]]
    /\ executor' = executor + 1
    /\ execution_results' = __init__.execution_results
    /\ chain_data' = __init__.chain_data
    /\ base_parameters' = __init__.base_parameters
    /\ UNCHANGED <<invoker_vars, aux_vars>>

InitReuse ==
    /\ chain_config \in ReuseChains
    /\ pc = "loop"
    /\ idx = 0
    /\ execution_results = __init__.execution_results
    /\ chain_data = __init__.chain_data
    /\ base_parameters = __init__.base_parameters
    /\ outcome = EmptyDict
    /\ calls = <<>>
    /\ executor = 1
    /\ returned = <<>>
    /\ NoInvoker

NextReuse ==
    \/ StepRaises
    \/ StepFails
    \/ StepSucceeds
    \/ ChainCompletes
    \/ CallAgainSameExecutor
    \/ CallOnNewExecutor

SpecReuse == InitReuse /\ [][NextReuse]_vars

\* execute_chain has been entered and no step has been taken
Starting == pc = "loop" /\ idx = 0 /\ calls = <<>>

\* the results mapping of an outcome
ResultsOf(o) == IF o.success THEN o.results ELSE o.partial_results

\* the executor in use has not run a chain before
FreshExecutor ==
    returned = <<>> \/ returned[Len(returned)].executor # executor

\* the executor that returned the i-th outcome ran no chain after it
NotUsedAgain(i) ==
    IF i < Len(returned)
    THEN returned[i + 1].executor # returned[i].executor
    ELSE returned[i].executor # executor

\* C14 as stated: every execute_chain call, whatever executor it is made on,
\* starts with empty BaseParameters, ChainData and results, and no outcome
\* already returned is changed by a later chain execution.
C14_NoCrossChainPersistence ==
    /\ Starting =>
           /\ base_parameters = EmptyDict
           /\ chain_data = EmptyDict
           /\ execution_results = EmptyDict
    /\ \A i \in DOMAIN returned : OutcomeNow(returned[i]) = returned[i].outcome

\* C14: No cross-chain persistence across executors.  An execute_chain call
\* made on a newly constructed executor starts with empty BaseParameters,
\* ChainData and results, and an outcome is not changed by chain executions
\* on other executors; a call made on the same executor instance starts with
\* the ChainData and results the previous call left, which are the mappings
\* the previous outcome holds.
C14_NoPersistenceAcrossExecutors ==
    /\ (Starting /\ FreshExecutor) =>
           /\ base_parameters = EmptyDict
           /\ chain_data = EmptyDict
           /\ execution_results = EmptyDict
    /\ (Starting /\ ~FreshExecutor) =>
           /\ chain_data = returned[Len(returned)].outcome.chain_data
           /\ execution_results = ResultsOf(returned[Len(returned)].outcome)
    /\ \A i \in DOMAIN returned :
           /\ NotUsedAgain(i) => OutcomeNow(returned[i]) = returned[i].outcome
           /\ returned[i].executor = executor =>
                  /\ ResultsOf(OutcomeNow(returned[i])) = execution_results
                  /\ OutcomeNow(returned[i]).chain_data = chain_data

\* a chain that stored chain data was followed by a chain on a new
\* executor, which has returned with chain data of its own
C14_Witness ==
    /\ pc = "returned"
    /\ Len(returned) = 1
    /\ returned[1].executor # executor
    /\ returned[1].outcome.chain_data # EmptyDict
    /\ chain_data # EmptyDict
    /\ chain_data # returned[1].outcome.chain_data

(***************************************************************************)
(* The parameter normalizer (core/db/sql_normalizer.py).  Strings are      *)
(* sequences of single characters here; the values are None, bool, int,    *)
(* float and str.                                                          *)
(***************************************************************************)
Letters ==
    { "a", "b", "c", "d", "e", "f", "g", "h", "i", "j", "k", "l", "m",
      "n", "o", "p", "q", "r", "s", "t", "u", "v", "w", "x", "y", "z",
      "A", "B", "C", "D", "E", "F", "G", "H", "I", "J", "K", "L", "M",
      "N", "O", "P", "Q", "R", "S", "T", "U", "V", "W", "X", "Y", "Z" }

\* a character class of a regular expression: \d, [A-Za-z], \s, or the
\* character itself
InClass(c, class) ==
    CASE class = "\\d"       -> IsDigit(c)
      [] class = "[A-Za-z]"  -> c \in Letters
      [] class = "\\s"       -> c = " "
      [] OTHER               -> c = class

\* re.match of a pattern, a sequence of items [class, min, max], against
\* the text from position i on
RECURSIVE MatchesAt(_, _, _)
MatchesAt(cs, pattern, i) ==
    IF pattern = <<>> THEN TRUE
    ELSE LET item == Head(pattern)
         IN  \E n \in item.min..item.max :
                 /\ i + n - 1 <= Len(cs)
                 /\ \A j \in i..(i + n - 1) : InClass(cs[j], item.class)
                 /\ MatchesAt(cs, Tail(pattern), i + n)

Item(class, min, max) == [class |-> class, min |-> min, max |-> max]

\* _looks_like_date knowing the ISO form only
_looks_like_date_iso_only(cs) ==
    MatchesAt(Strip(cs), << Item("\\d", 4, 4), Item("-", 1, 1),
                            Item("\\d", 2, 2), Item("-", 1, 1),
                            Item("\\d", 2, 2) >>, 1)

\* _looks_like_date of a string: ISO, slash-delimited and month-name
\* prefixes (the two patterns with a time are extensions of these)
_looks_like_date(cs) ==
    LET value == Strip(cs)
        many  == Len(value)
    IN  \/ MatchesAt(value, << Item("\\d", 4, 4), Item("-", 1, 1),
                               Item("\\d", 2, 2), Item("-", 1, 1),
                               Item("\\d", 2, 2) >>, 1)
        \/ MatchesAt(value, << Item("\\d", 1, 2), Item("/", 1, 1),
                               Item("\\d", 1, 2), Item("/", 1, 1),
                               Item("\\d", 2, 4) >>, 1)
        \/ MatchesAt(value, << Item("[A-Za-z]", 3, 3), Item("\\s", 1, many),
                               Item("\\d", 1, 2), Item("\\s", 1, many),
                               Item("\\d", 4, 4) >>, 1)

\* the stripped texts float(str) parses to a finite number, among the texts
\* without exponent or underscore: an optional sign, digits, at most one
\* point, at least one digit
IsDecimalLiteral(cs) ==
    LET u == Unsigned(cs)
    IN  /\ Cardinality({i \in DOMAIN u : u[i] = "."}) <= 1
        /\ \E i \in DOMAIN u : IsDigit(u[i])
        /\ \A i \in DOMAIN u : IsDigit(u[i]) \/ u[i] = "."

\* int(float(cs)) of such a text: the digits before the point, signed
TruncOfDecimalLiteral(cs) ==
    LET u     == Unsigned(cs)
        dots  == {i \in DOMAIN u : u[i] = "."}
        point == IF dots = {} THEN Len(u) + 1 ELSE CHOOSE i \in dots : TRUE
        mag   == DigitsValue(SubSeq(u, 1, point - 1))
    IN  IF HasSign(cs) /\ Head(cs) = "-" THEN 0 - mag ELSE mag

\* sql_type is None
NoType == "None"

\* the integer types with DECIMAL among them
IntegerTypesWithDecimal == {"INT", "BIGINT", "SMALLINT", "TINYINT", "DECIMAL"}

IntegerTypes == {"INT", "BIGINT", "SMALLINT", "TINYINT"}

DateTimeTypes == {"DATETIME", "DATETIME2", "SMALLDATETIME", "DATETIMEOFFSET"}

DecimalTypes == {"DECIMAL", "NUMERIC", "MONEY", "SMALLMONEY"}

\* isinstance(value, int): a bool is an int
IsInstanceInt(value) == value.t \in {"int", "bool"}

\* isinstance(value, float): the finite floats, nan and the infinities
IsInstanceFloat(value) == value.t \in {"float", "nan", "inf"}

\* the decimal digits of n, zero-padded to width
RECURSIVE Pad(_, _)
Pad(n, width) ==
    IF width = 0 THEN <<>>
    ELSE Pad(n \div 10, width - 1) \o << DigitChars[(n % 10) + 1] >>

\* strftime('%Y-%m-%d') of the fields <<y, m, d>>, for a year of four digits
strftime_date(f) == Pad(f[1], 4) \o <<"-">> \o Pad(f[2], 2) \o <<"-">>
                    \o Pad(f[3], 2)

\* strftime('%H:%M:%S') of the fields <<H, M, S>>
strftime_time(f) == Pad(f[1], 2) \o <<":">> \o Pad(f[2], 2) \o <<":">>
                    \o Pad(f[3], 2)

\* " 00:00:00"
Midnight == <<" ", "0", "0", ":", "0", "0", ":", "0", "0">>

_normalize_date(value) ==
    IF value.t = "date" THEN PyStr(strftime_date(value.s))
    ELSE IF value.t = "datetime"
    THEN PyStr(strftime_date(SubSeq(value.s, 1, 3)))
    ELSE IF IsInstanceInt(value) /\ value.n = 0 THEN PyNone
    ELSE value

_normalize_datetime(value) ==
    IF value.t = "datetime"
    THEN PyStr(strftime_date(SubSeq(value.s, 1, 3)) \o <<" ">>
               \o strftime_time(SubSeq(value.s, 4, 6)))
    ELSE IF value.t = "date"
    THEN PyStr(strftime_date(value.s) \o Midnight)
    ELSE IF IsInstanceInt(value) /\ value.n = 0 THEN PyNone
    ELSE value

_normalize_time(value) ==
    IF value.t = "time" THEN PyStr(strftime_time(value.s))
    ELSE IF value.t = "datetime"
    THEN PyStr(strftime_time(SubSeq(value.s, 4, 6)))
    ELSE value

\* the texts float(str) parses to an infinity or to nan, among the
\* lower-case texts: an optional sign and the word
IsInfLiteral(cs) == Unsigned(cs) = <<"i", "n", "f">>

IsNaNLiteral(cs) == Unsigned(cs) = <<"n", "a", "n">>

\* int(cs) in place of int(float(cs)): a text with a point does not parse
IntOfText(cs) ==
    IF IsIntLiteral(cs) THEN PyInt(IntLiteralValue(cs))
    ELSE Raised("ValueError")

\* int(float(cs)) of a stripped text: float raises ValueError on a text
\* it does not parse, int raises ValueError on nan and OverflowError on an
\* infinity
IntOfFloatOfText(cs) ==
    IF IsDecimalLiteral(cs) THEN PyInt(TruncOfDecimalLiteral(cs))
    ELSE IF IsInfLiteral(cs) THEN Raised("OverflowError")
    ELSE Raised("ValueError")

\* int(value) of a float
IntOfFloat(value) ==
    IF IntRaises(value) # "" THEN Raised(IntRaises(value))
    ELSE PyInt(IntOf(value))

\* 1 if value else 0: a text that is not empty counts as true
TruthTest(value) == PyInt(IF Truthy(value) THEN 1 ELSE 0)

\* 1 if int(value) != 0 else 0, where int(value) returns
NonZeroTest(value) == PyInt(IF IntOf(value) # 0 THEN 1 ELSE 0)

\* whether normalize, for this value and type, gets as far as the call of
\* float on the stripped text
ReachesFloat(value, sql_type) ==
    /\ value.t = "str"
    /\ sql_type \in IntegerTypes
    /\ ~_looks_like_date(Strip(value.s))
    /\ Strip(value.s) # <<>>

\* the body of the try statement of normalize: the value it returns, or
\* the exception that leaves it
normalize_rule(param_name, value, sql_type) ==
    CASE sql_type = "DATE" -> _normalize_date(value)
      [] sql_type \in DateTimeTypes -> _normalize_datetime(value)
      [] sql_type = "TIME" -> _normalize_time(value)
      [] sql_type \in IntegerTypes ->
           CASE value.t = "str" ->
                  LET value_stripped == Strip(value.s)
                      parsed == IntOfFloatOfText(value_stripped)
                  IN  IF _looks_like_date(value_stripped) THEN value
                      ELSE IF value_stripped = <<>> THEN PyInt(0)
                      ELSE IF parsed = Raised("ValueError") THEN value
                      ELSE parsed
             [] value.t = "bool"      -> PyInt(value.n)
             [] IsInstanceFloat(value) -> IntOfFloat(value)
             [] OTHER                 -> value
      [] sql_type = "BIT" ->
           CASE value.t = "str" ->
                  IF Strip(value.s) = <<>> THEN PyInt(0)
                  ELSE IF IntRaises(value) = "" THEN NonZeroTest(value)
                  ELSE value
             [] value.t = "bool" -> PyInt(value.n)
             [] value.t = "int"  -> PyInt(IF value.n # 0 THEN 1 ELSE 0)
             [] OTHER            -> value
      [] sql_type \in DecimalTypes ->
           IF value.t = "str" /\ Strip(value.s) = <<>>
           THEN PyInt(0)
           ELSE value
      [] OTHER -> value

\* normalize without its except clause: the exception leaves the call
normalize_without_except(param_name, value, sql_type) ==
    IF value.t = "none" THEN PyNone
    ELSE IF sql_type = NoType THEN value
    ELSE normalize_rule(param_name, value, sql_type)

\* normalize applying the rules to a value without a declared type as if
\* the type were an integer type
normalize_defaulting_to_int(param_name, value, sql_type) ==
    IF value.t = "none" THEN PyNone
    ELSE LET r == normalize_rule(param_name, value,
                                 IF sql_type = NoType THEN "INT" ELSE sql_type)
         IN  IF r.t = "raised" THEN value ELSE r

\* SQLNormalizer.normalize(param_name, value, sql_type)
normalize(param_name, value, sql_type) ==
    IF value.t = "none" THEN PyNone
    ELSE IF sql_type = NoType THEN value
    ELSE LET r == normalize_rule(param_name, value, sql_type)
         IN  IF r.t = "raised" THEN value ELSE r

\* A dictionary whose insertion order matters is the sequence of its items
\* <<key, value>>, each key once.
Keys(items) == [i \in DOMAIN items |-> items[i][1]]

\* d[key]
Lookup(items, key) ==
    items[CHOOSE i \in DOMAIN items : items[i][1] = key][2]

\* d[key] = v: a new key goes last, a key already there keeps its place
SetItem(items, key, v) ==
    IF \E i \in DOMAIN items : items[i][1] = key
    THEN [i \in DOMAIN items |->
             IF items[i][1] = key THEN <<key, v>> ELSE items[i]]
    ELSE Append(items, <<key, v>>)

\* whether `if a != b:` raises: the comparison of an array has no truth
\* value
NotEqualRaises(a, b) == a.t = "array" \/ b.t = "array"

\* the loop of normalize_parameters with an except clause that gives up:
\* the items after the failing one are not stored
RECURSIVE normalize_from_aborting(_, _, _, _)
normalize_from_aborting(parameters, type_mappings, i, normalized) ==
    IF i > Len(parameters) THEN normalized
    ELSE LET param_name == parameters[i][1]
             value == parameters[i][2]
             sql_type == Get(type_mappings, param_name, NoType)
             normalized_value == normalize(param_name, value, sql_type)
         IN  IF normalized_value.t = "raised"
                \/ NotEqualRaises(normalized_value, value)
             THEN SetItem(normalized, param_name, value)
             ELSE normalize_from_aborting(parameters, type_mappings, i + 1,
                      SetItem(normalized, param_name, normalized_value))

\* the loop of normalize_parameters from the i-th item on; the except
\* clause stores the original value under the name
RECURSIVE normalize_from(_, _, _, _)
normalize_from(parameters, type_mappings, i, normalized) ==
    IF i > Len(parameters) THEN normalized
    ELSE LET param_name == parameters[i][1]
             value == parameters[i][2]
             sql_type == Get(type_mappings, param_name, NoType)
             normalized_value == normalize(param_name, value, sql_type)
         IN  IF normalized_value.t = "raised"
             THEN normalize_from(parameters, type_mappings, i + 1,
                                 SetItem(normalized, param_name, value))
             ELSE IF NotEqualRaises(normalized_value, value)
             THEN normalize_from(parameters, type_mappings, i + 1,
                      SetItem(SetItem(normalized, param_name,
                                      normalized_value),
                              param_name, value))
             ELSE normalize_from(parameters, type_mappings, i + 1,
                      SetItem(normalized, param_name, normalized_value))

\* ParameterNormalizer.normalize_parameters(parameters, type_mappings);
\* type_mappings.get(param_name) is None for a name without an entry
normalize_parameters(parameters, type_mappings) ==
    IF parameters = <<>> THEN <<>>
    ELSE normalize_from(parameters, type_mappings, 1, <<>>)

(***************************************************************************)
(* The procedure invoker (core/db/procedures.py) and the database session  *)
(* (core/db/connection.py).  A caller, the chain executor's loop or a      *)
(* direct caller, invokes run_stored_procedure; the call is followed from  *)
(* one database interaction to the next.  The database is the environment: *)
(* the configuration check and the connection attempt succeed or raise,    *)
(* an executed statement returns rows or raises; commit, rollback and the  *)
(* two close calls of the driver return.  `trace` records every operation  *)
(* on a session, with the session it was done on and the step it was done  *)
(* for.                                                                    *)
(***************************************************************************)
EmptyMap == [k \in {} |-> NoType]

Event(op, session, step) ==
    [op |-> op, session |-> session, step |-> step]

\* the DBSession objects are numbered in the order they are entered
NextSession == 1 + Cardinality({i \in DOMAIN trace : trace[i].op = "open"})

\* variant: the transaction is ended but cursor and connection stay open
__exit__keeping_open(session, exc_type, step) ==
    << Event(IF exc_type = "" THEN "commit" ELSE "rollback", session, step) >>

\* variant: the transaction is committed whatever happened
__exit__always_committing(session, exc_type, step) ==
    << Event("commit", session, step),
       Event("cursor.close", session, step),
       Event("conn.close", session, step) >>

\* DBSession.__exit__(exc_type, ...): what it does to the session
__exit__(session, exc_type, step) ==
    << Event(IF exc_type = "" THEN "commit" ELSE "rollback", session, step),
       Event("cursor.close", session, step),
       Event("conn.close", session, step) >>

\* what get_stored_procedure_parameters meets: the session cannot be
\* entered, the query raises, or it returns rows (PARAMETER_NAME,
\* DATA_TYPE, PARAMETER_MODE); a DATA_TYPE may be NULL
NullType == "NULL"

MetadataReplies ==
    { [kind |-> "connect_fails", rows |-> <<>>],
      [kind |-> "execute_fails", rows |-> <<>>],
      [kind |-> "rows", rows |-> <<>>],
      [kind |-> "rows", rows |-> << <<ParamA, "int", "IN">>,
                                    <<ParamB, "bit", "IN">> >>],
      [kind |-> "rows", rows |-> << <<ParamA, "decimal", "IN">>,
                                    <<ParamB, "date", "IN">> >>],
      [kind |-> "rows", rows |-> << <<ParamA, "int", "IN">>,
                                    <<ParamB, NullType, "IN">> >>] }

\* str.upper() of the DATA_TYPE names the database replies with
upper(data_type) ==
    CASE data_type = "int"     -> "INT"
      [] data_type = "bit"     -> "BIT"
      [] data_type = "decimal" -> "DECIMAL"
      [] data_type = "date"    -> "DATE"
      [] OTHER                 -> data_type

\* the SQLDataType a DATA_TYPE is mapped to
MappedType(data_type) ==
    CASE data_type \in {"INT", "BIGINT", "SMALLINT", "TINYINT"} -> "INT"
      [] data_type \in {"FLOAT", "REAL"} -> "FLOAT"
      [] data_type \in {"DECIMAL", "NUMERIC", "MONEY", "SMALLMONEY"} -> "DECIMAL"
      [] data_type \in {"BIT"} -> "BIT"
      [] data_type \in {"VARCHAR", "CHAR"} -> "VARCHAR"
      [] data_type \in {"NVARCHAR", "NCHAR"} -> "NVARCHAR"
      [] data_type \in {"DATE"} -> "DATE"
      [] data_type \in {"DATETIME", "DATETIME2", "SMALLDATETIME",
                        "DATETIMEOFFSET"} -> "DATETIME"
      [] data_type \in {"TIME"} -> "TIME"
      [] OTHER -> data_type

\* the loop over param_rows: a later row replaces an earlier one of the
\* same name
RECURSIVE TypeMappingsOf(_)
TypeMappingsOf(param_rows) ==
    IF param_rows = <<>> THEN EmptyMap
    ELSE LET row == param_rows[Len(param_rows)]
         IN  Overlay(TypeMappingsOf(SubSeq(param_rows, 1, Len(param_rows) - 1)),
                     row[1] :> MappedType(upper(row[2])))

\* row[1].upper() raises for a NULL DATA_TYPE
RowRaises(row) == row[2] = NullType

\* variant: the entries built before the failure are kept
_build_type_mappings_keeping_partial(reply) ==
    IF reply.kind # "rows" THEN EmptyMap
    ELSE IF \E i \in DOMAIN reply.rows : RowRaises(reply.rows[i])
    THEN LET bad == CHOOSE i \in DOMAIN reply.rows :
                        /\ RowRaises(reply.rows[i])
                        /\ \A j \in 1..(i - 1) : ~RowRaises(reply.rows[j])
         IN  TypeMappingsOf(SubSeq(reply.rows, 1, bad - 1))
    ELSE TypeMappingsOf(reply.rows)

\* _build_type_mappings_from_metadata(sp_name), given the database's reply:
\* {} when the fetch raised, returned nothing, or a row could not be read
_build_type_mappings_from_metadata(reply) ==
    IF reply.kind # "rows" THEN EmptyMap
    ELSE IF \E i \in DOMAIN reply.rows : RowRaises(reply.rows[i])
    THEN EmptyMap
    ELSE TypeMappingsOf(reply.rows)

\* how the fetch went
FetchOutcome(reply) ==
    CASE reply.kind # "rows" -> reply.kind
      [] reply.rows = <<>> -> "no_rows"
      [] \E i \in DOMAIN reply.rows : RowRaises(reply.rows[i]) -> "unreadable_row"
      [] OTHER -> "rows"

\* get_stored_procedure_parameters: a session of its own, entered and left
\* inside the session of the call
MetadataEvents(reply, session, step) ==
    CASE reply.kind = "connect_fails" -> <<>>
      [] reply.kind = "execute_fails" ->
            << Event("open", session, step), Event("execute", session, step),
               Event("raised", session, step) >>
            \o __exit__(session, "DatabaseError", step)
      [] OTHER ->
            << Event("open", session, step), Event("execute", session, step) >>
            \o __exit__(session, "", step)

\* the arguments of run_stored_procedure.  params is None, a list or tuple
\* (items: its values), a dict (items: its <<name, value>> pairs in
\* insertion order) or something else; type_mappings is None (given =
\* FALSE) or a dict
Args(shape, items, given, map, capture) ==
    [sp_name |-> "sp", shape |-> shape, items |-> items,
     type_mappings |-> [given |-> given, map |-> map],
     capture_output_params |-> capture]

Text(chars) == PyStr(chars)

SequenceParams == { <<>>, << PyInt(1), Text(<<"x">>) >> }

MappingParams ==
    { <<>>,
      << <<ParamA, Text(<<"7">>)>> >>,
      << <<ParamA, Text(<<" ">>)>>, <<ParamB, PyInt(0)>> >>,
      << <<ParamB, PyInt(3)>>, <<ParamA, Text(<<"7", ".", "5">>)>> >> }

GivenTypeMappings == { EmptyMap, (ParamA :> "INT") @@ (ParamB :> "BIT") }

\* what a direct caller passes
DirectCalls ==
    { Args("none", <<>>, FALSE, EmptyMap, c) : c \in BOOLEAN }
    \cup { Args("sequence", p, FALSE, EmptyMap, c) :
             p \in SequenceParams, c \in BOOLEAN }
    \cup { Args("mapping", p, FALSE, EmptyMap, c) :
             p \in MappingParams, c \in BOOLEAN }
    \cup { Args("mapping", p, TRUE, m, c) :
             p \in MappingParams, m \in GivenTypeMappings, c \in BOOLEAN }
    \cup { Args("other", << PyInt(5) >>, FALSE, EmptyMap, c) : c \in BOOLEAN }

\* what _execute_sp passes: the step's parameters, capture_output_params=True
ChainCall == Args("mapping", << <<ParamA, PyInt(10)>> >>, FALSE, EmptyMap, TRUE)

\* what executing the call meets: an exception, or the rows fetched
ExecuteReplies ==
    { [exc |-> "DatabaseError", rows |-> <<>>],
      [exc |-> "", rows |-> <<>>],
      [exc |-> "", rows |-> << << PyInt(1), PyStr(<<"created">>), PyInt(7) >> >>],
      [exc |-> "", rows |-> << << PyInt(0), PyStr(<<"duplicate name">>) >> >>] }

\* what the cursor holds as output_params after the call: no such
\* attribute, None, or a dictionary
CursorOutputs ==
    { [has |-> FALSE, value |-> PyNone],
      [has |-> TRUE, value |-> PyNone],
      [has |-> TRUE, value |-> EmptyDict],
      [has |-> TRUE, value |-> ("@out" :> PyInt(5))] }

\* DBSession.get_output_params()
get_output_params(cursor) == IF cursor.has THEN cursor.value ELSE EmptyDict

\* variant: output_params is returned as it is
_format_result_passing_none(rows, output_params, capture_output_params) ==
    IF capture_output_params
    THEN [rows |-> rows, output_params |-> output_params]
    ELSE rows

\* _format_result: 'output_params': output_params or {}
_format_result(rows, output_params, capture_output_params) ==
    IF capture_output_params
    THEN [rows |-> rows,
          output_params |-> IF output_params = PyNone \/ output_params = EmptyDict
                            THEN EmptyDict
                            ELSE output_params]
    ELSE rows

\* ",".join(parts)
RECURSIVE Join(_)
Join(parts) ==
    IF parts = <<>> THEN <<>>
    ELSE IF Len(parts) = 1 THEN parts[1]
    ELSE parts[1] \o <<",">> \o Join(Tail(parts))

\* the call text, as its fragments: f"EXEC {sp_name}"
ExecText(sp_name) == <<"EXEC ", sp_name>>

\* f"EXEC {sp_name} {placeholders}" with one "?" per value
PositionalText(sp_name, params) ==
    <<"EXEC ", sp_name, " ">> \o Join([i \in DOMAIN params |-> <<"?">>])

\* f"EXEC {sp_name} {placeholders}" with f"{name}=?" per name
NamedText(sp_name, names) ==
    <<"EXEC ", sp_name, " ">> \o Join([i \in DOMAIN names |-> <<names[i], "=?">>])

\* variant: the values are taken in the reverse order of the names
BoundValuesReversed(normalized_params, names) ==
    [i \in DOMAIN names |->
        Lookup(normalized_params, names[Len(names) + 1 - i])]

\* values = [normalized_params[name] for name in names]
BoundValues(normalized_params, names) ==
    [i \in DOMAIN names |-> Lookup(normalized_params, names[i])]

\* the statement run_stored_procedure executes for its arguments
Statement(c, type_mappings) ==
    CASE c.shape = "none" ->
            [sql |-> ExecText(c.sp_name), values |-> <<>>]
      [] c.shape = "sequence" ->
            [sql |-> PositionalText(c.sp_name, c.items), values |-> c.items]
      [] c.shape = "mapping" ->
            LET normalized_params == normalize_parameters(c.items, type_mappings)
                names == Keys(normalized_params)
            IN  [sql |-> NamedText(c.sp_name, names),
                 values |-> BoundValues(normalized_params, names)]

Callers ==
    { [kind |-> "chain", steps |-> n, step |-> 1, state |-> "ready"] :
        n \in 1..MaxSteps }
    \cup { [kind |-> "direct", steps |-> 1, step |-> 1, state |-> "ready"] }

\* the locals of run_stored_procedure before `with DBSession() as db`
EnteringFrame(c) ==
    [at |-> "enter", session |-> 0, exc |-> "",
     type_mappings |-> c.type_mappings.map, fetched |-> "",
     sql |-> <<>>, values |-> <<>>, rows |-> <<>>,
     cursor |-> [has |-> FALSE, value |-> PyNone], value |-> <<>>]

InitInvoker ==
    /\ chain_config = <<>>
    /\ pc = "none"
    /\ idx = 0
    /\ execution_results = EmptyDict
    /\ chain_data = EmptyDict
    /\ base_parameters = EmptyDict
    /\ outcome = EmptyDict
    /\ calls = <<>>
    /\ executor = 1
    /\ returned = <<>>
    /\ caller \in Callers
    /\ call = [shape |-> "none"]
    /\ frame = [at |-> "none"]
    /\ trace = <<>>
    /\ fn_args = [fn |-> "none"]
    /\ fn_value = [done |-> FALSE]

\* the caller calls run_stored_procedure: the loop through _execute_sp, a
\* direct caller with arguments of its choice
Invoke ==
    /\ caller.state = "ready"
    /\ \E c \in IF caller.kind = "chain" THEN {ChainCall} ELSE DirectCalls :
         /\ call' = c
         /\ frame' = EnteringFrame(c)
    /\ caller' = [caller EXCEPT !.state = "waiting"]
    /\ trace' = Append(trace, Event("invoke", 0, caller.step))
    /\ UNCHANGED <<aux_vars, chain_vars, reuse_vars>>

\* DBSession.__enter__ returns: configuration valid, connected
EnterSession ==
    /\ caller.state = "waiting"
    /\ frame.at = "enter"
    /\ frame' = [frame EXCEPT !.at = "body", !.session = NextSession]
    /\ trace' = Append(trace, Event("open", NextSession, caller.step))
    /\ UNCHANGED <<aux_vars, chain_vars, reuse_vars, caller, call>>

\* DBSession.__enter__ raises: DatabaseConfig.validate() or pyodbc.connect
EnterFails ==
    /\ caller.state = "waiting"
    /\ frame.at = "enter"
    /\ \E e \in {"ValueError", "OperationalError"} :
         frame' = [frame EXCEPT !.at = "done", !.exc = e]
    /\ UNCHANGED <<aux_vars, chain_vars, reuse_vars, caller, call, trace>>

\* params is a dict and type_mappings is None: the metadata is fetched
FetchMetadata ==
    /\ caller.state = "waiting"
    /\ frame.at = "body"
    /\ call.shape = "mapping"
    /\ ~call.type_mappings.given
    /\ frame.fetched = ""
    /\ \E reply \in MetadataReplies :
         /\ frame' = [frame EXCEPT
                         !.type_mappings = _build_type_mappings_from_metadata(reply),
                         !.fetched = FetchOutcome(reply)]
         /\ trace' = trace \o MetadataEvents(reply, NextSession, caller.step)
    /\ UNCHANGED <<aux_vars, chain_vars, reuse_vars, caller, call>>

\* the type mappings are at hand, or not needed
ReadyToExecute ==
    /\ caller.state = "waiting"
    /\ frame.at = "body"
    /\ \/ call.shape \in {"none", "sequence"}
       \/ call.shape = "mapping" /\ (call.type_mappings.given \/ frame.fetched # "")

\* db.execute_query(sql, values) raises: the exception leaves the with block
ExecuteRaises ==
    /\ ReadyToExecute
    /\ \E reply \in ExecuteReplies :
         LET st == Statement(call, frame.type_mappings)
         IN  /\ reply.exc # ""
             /\ frame' = [frame EXCEPT !.at = "exit", !.exc = reply.exc,
                                       !.sql = st.sql, !.values = st.values]
             /\ trace' = trace \o << Event("execute", frame.session, caller.step),
                                     Event("raised", frame.session, caller.step) >>
    /\ UNCHANGED <<aux_vars, chain_vars, reuse_vars, caller, call>>

\* db.execute_query(sql, values) returns the rows; the result is formatted
\* and returned from inside the with block
ExecuteReturns ==
    /\ ReadyToExecute
    /\ \E reply \in ExecuteReplies, cursor \in CursorOutputs :
         LET st == Statement(call, frame.type_mappings)
             output_params ==
                 IF call.shape = "mapping" /\ call.capture_output_params
                 THEN get_output_params(cursor)
                 ELSE PyNone
         IN  /\ reply.exc = ""
             /\ frame' = [frame EXCEPT
                             !.at = "exit", !.sql = st.sql, !.values = st.values,
                             !.rows = reply.rows, !.cursor = cursor,
                             !.value = _format_result(reply.rows, output_params,
                                                      call.capture_output_params)]
             /\ trace' = Append(trace,
                                Event("execute", frame.session, caller.step))
    /\ UNCHANGED <<aux_vars, chain_vars, reuse_vars, caller, call>>

\* variant: any other params is bound as it is
RejectParamsAfterExecuting ==
    /\ caller.state = "waiting"
    /\ frame.at = "body"
    /\ call.shape = "other"
    /\ frame' = [frame EXCEPT !.at = "exit", !.exc = "TypeError",
                              !.sql = PositionalText(call.sp_name, call.items),
                              !.values = call.items]
    /\ trace' = trace \o << Event("execute", frame.session, caller.step),
                            Event("raised", frame.session, caller.step) >>
    /\ UNCHANGED <<aux_vars, chain_vars, reuse_vars, caller, call>>

\* params is neither None, list, tuple nor dict: TypeError is raised
RejectParams ==
    /\ caller.state = "waiting"
    /\ frame.at = "body"
    /\ call.shape = "other"
    /\ frame' = [frame EXCEPT !.at = "exit", !.exc = "TypeError"]
    /\ trace' = Append(trace, Event("raised", frame.session, caller.step))
    /\ UNCHANGED <<aux_vars, chain_vars, reuse_vars, caller, call>>

\* the with block is left: DBSession.__exit__, then the call returns or
\* the exception goes on to the caller
ExitSession ==
    /\ caller.state = "waiting"
    /\ frame.at = "exit"
    /\ frame' = [frame EXCEPT !.at = "done"]
    /\ trace' = trace \o __exit__(frame.session, frame.exc, caller.step)
    /\ UNCHANGED <<aux_vars, chain_vars, reuse_vars, caller, call>>

\* variant: a failed status check undoes the work of the chain, the
\* sessions of its steps are rolled back
StepOutcomeRollingBack ==
    /\ caller.kind = "chain"
    /\ caller.state = "waiting"
    /\ frame.at = "done"
    /\ IF frame.exc # ""
       THEN /\ caller' = [caller EXCEPT !.state = "aborted"]
            /\ trace' = trace
       ELSE IF ~_check_step_status(frame.value).ok
       THEN /\ caller' = [caller EXCEPT !.state = "aborted"]
            /\ trace' = trace
                  \o << Event("status", 0, caller.step) >>
                  \o [i \in 1..frame.session |->
                         Event("rollback", frame.session + 1 - i, caller.step)]
       ELSE /\ trace' = Append(trace, Event("status", 0, caller.step))
            /\ caller' =
                 IF caller.step = caller.steps
                 THEN [caller EXCEPT !.state = "completed"]
                 ELSE [caller EXCEPT !.state = "ready", !.step = @ + 1]
    /\ UNCHANGED <<aux_vars, chain_vars, reuse_vars, call, frame>>

\* execute_chain after _execute_sp: an exception ends the chain, otherwise
\* the status check decides whether the loop goes on
StepOutcome ==
    /\ caller.kind = "chain"
    /\ caller.state = "waiting"
    /\ frame.at = "done"
    /\ IF frame.exc # ""
       THEN /\ caller' = [caller EXCEPT !.state = "aborted"]
            /\ trace' = trace
       ELSE /\ trace' = Append(trace, Event("status", 0, caller.step))
            /\ caller' =
                 IF ~_check_step_status(frame.value).ok
                 THEN [caller EXCEPT !.state = "aborted"]
                 ELSE IF caller.step = caller.steps
                 THEN [caller EXCEPT !.state = "completed"]
                 ELSE [caller EXCEPT !.state = "ready", !.step = @ + 1]
    /\ UNCHANGED <<aux_vars, chain_vars, reuse_vars, call, frame>>

\* the direct caller has its return value or exception
ReturnToCaller ==
    /\ caller.kind = "direct"
    /\ caller.state = "waiting"
    /\ frame.at = "done"
    /\ caller' = [caller EXCEPT !.state = "returned"]
    /\ UNCHANGED <<aux_vars, chain_vars, reuse_vars, call, frame, trace>>

NextInvoker ==
    \/ Invoke
    \/ EnterSession
    \/ EnterFails
    \/ FetchMetadata
    \/ ExecuteRaises
    \/ ExecuteReturns
    \/ RejectParams
    \/ ExitSession
    \/ StepOutcome
    \/ ReturnToCaller

SpecInvoker == InitInvoker /\ [][NextInvoker]_vars

(***************************************************************************)
(* Properties of the invoker and its sessions, stated over `trace` and the *)
(* locals of the call.                                                     *)
(***************************************************************************)
\* the positions of the trace where op was done
Ops(op) == {i \in DOMAIN trace : trace[i].op = op}

\* the sessions entered so far
SessionIds == {trace[i].session : i \in Ops("open")}

\* what was done on session s, in order
EventsOf(s) == SelectSeq(trace, LAMBDA e : e.session = s)

\* session s is the one of the call in progress, inside its with block
InUse(s) == frame.at \in {"body", "exit"} /\ frame.session = s

\* before position j, session s was committed or rolled back, and then its
\* cursor and its connection were closed
Released(s, j) ==
    \E c \in 3..(j - 1) :
        /\ trace[c] = Event("conn.close", s, trace[c].step)
        /\ trace[c - 1] = Event("cursor.close", s, trace[c].step)
        /\ trace[c - 2].op \in {"commit", "rollback"}
        /\ trace[c - 2].session = s

\* C15: Strictly sequential steps with unshared sessions.  Step N+1 is
\* invoked only after the status check of step N has produced its outcome,
\* nothing is done for a step once a later step has begun, a session opened
\* for step N is committed or rolled back and then released before a
\* session for a later step is opened, and no session is used by two steps.
C15_SequentialUnsharedSessions ==
    /\ \A i, j \in DOMAIN trace : i < j => trace[i].step <= trace[j].step
    /\ \A j \in Ops("invoke") :
           trace[j].step > 1 =>
               \E i \in 1..(j - 1) :
                   trace[i].op = "status" /\ trace[i].step = trace[j].step - 1
    /\ \A i, j \in Ops("open") :
           trace[i].step < trace[j].step => Released(trace[i].session, j)
    /\ \A i, j \in DOMAIN trace :
           (trace[i].session # 0 /\ trace[i].session = trace[j].session)
               => trace[i].step = trace[j].step

\* a chain has completed whose second step opened a session
C15_Witness ==
    /\ caller.kind = "chain"
    /\ caller.state = "completed"
    /\ \E j \in Ops("open") : trace[j].step = 2

\* C16: Session protocol.  Every entered session that is no longer in use
\* was ended by exactly one commit (no exception was raised in it) or
\* exactly one rollback (an exception was raised in it), followed by the
\* release of the cursor and of the connection, and nothing after; a
\* session still in use has seen none of these; when the caller has its
\* result, no session is in use.
C16_SessionProtocol ==
    /\ \A s \in SessionIds :
           LET ev   == EventsOf(s)
               n    == Len(ev)
               ends == {i \in DOMAIN ev : ev[i].op \in {"commit", "rollback"}}
           IN  /\ ev[1].op = "open"
               /\ IF InUse(s)
                  THEN \A i \in 2..n : ev[i].op \in {"execute", "raised"}
                  ELSE /\ n >= 4
                       /\ ends = {n - 2}
                       /\ ev[n - 2].op =
                              IF \E i \in DOMAIN ev : ev[i].op = "raised"
                              THEN "rollback" ELSE "commit"
                       /\ ev[n - 1].op = "cursor.close"
                       /\ ev[n].op = "conn.close"
                       /\ \A i \in 2..(n - 3) : ev[i].op \in {"execute", "raised"}
    /\ caller.state \in {"completed", "aborted", "returned"} =>
           \A s \in SessionIds : ~InUse(s)

\* a call returned an exception to its caller after one of its sessions
\* was committed and another rolled back
C16_Witness ==
    /\ caller.state \in {"aborted", "returned"}
    /\ Ops("commit") # {}
    /\ Ops("rollback") # {}
    /\ trace[Len(trace)].op = "conn.close"

\* the statements executed on the session of the call
StatementsOfCall ==
    {i \in Ops("execute") : trace[i].session = frame.session}

\* the fragments of a call text that are equal to part
Fragments(sql, part) == {i \in DOMAIN sql : sql[i] = part}

\* the names a call text lists, in order: what stands before each "=?"
NamesListed(sql) ==
    LET marks == SelectSeq([i \in DOMAIN sql |-> i], LAMBDA i : sql[i] = "=?")
    IN  [k \in DOMAIN marks |-> sql[marks[k] - 1]]

\* C17: Parameter-shape dispatch.  Once the session of the call is entered,
\* params = None executes "EXEC sp" with no values, a list or tuple
\* executes one "?" per value and binds the values in the given order, a
\* dict executes one "name=?" per key; any other params raises TypeError
\* with no statement executed, and the session is rolled back and released.
\* When the session cannot be entered, the call raises without it.
C17_ShapeDispatch ==
    /\ (frame.at \in {"exit", "done"} /\ frame.session # 0) =>
           CASE call.shape = "none" ->
                   /\ Cardinality(StatementsOfCall) = 1
                   /\ frame.sql = <<"EXEC ", call.sp_name>>
                   /\ frame.values = <<>>
             [] call.shape = "sequence" ->
                   /\ Cardinality(StatementsOfCall) = 1
                   /\ SubSeq(frame.sql, 1, 2) = <<"EXEC ", call.sp_name>>
                   /\ Cardinality(Fragments(frame.sql, "?")) = Len(call.items)
                   /\ Fragments(frame.sql, "=?") = {}
                   /\ frame.values = call.items
             [] call.shape = "mapping" ->
                   /\ Cardinality(StatementsOfCall) = 1
                   /\ SubSeq(frame.sql, 1, 2) = <<"EXEC ", call.sp_name>>
                   /\ NamesListed(frame.sql) = Keys(call.items)
                   /\ Fragments(frame.sql, "?") = {}
                   /\ Len(frame.values) = Len(call.items)
             [] call.shape = "other" ->
                   /\ frame.exc = "TypeError"
                   /\ Ops("execute") = {}
                   /\ EventsOf(frame.session) =
                          << Event("open", frame.session, caller.step),
                             Event("raised", frame.session, caller.step) >>
                          \o (IF frame.at = "done"
                              THEN << Event("rollback", frame.session, caller.step),
                                      Event("cursor.close", frame.session, caller.step),
                                      Event("conn.close", frame.session, caller.step) >>
                              ELSE <<>>)
    /\ (frame.at = "done" /\ frame.session = 0) =>
           /\ frame.exc \in {"ValueError", "OperationalError"}
           /\ trace[Len(trace)].op = "invoke"

\* a call with params of another shape has ended in its entered session
C17_Witness ==
    /\ call.shape = "other"
    /\ frame.at = "done"
    /\ frame.session # 0
    /\ caller.state = "returned"

\* the execution yielded no output parameters
YieldsNoOutputs ==
    ~frame.cursor.has \/ frame.cursor.value = PyNone
                      \/ frame.cursor.value = EmptyDict

\* C18: Captured outputs are never null.  A call that returns with
\* capture_output_params = True returns a mapping with exactly the keys
\* rows and output_params, for params None, a sequence or a mapping;
\* output_params is never None and is the empty mapping whenever the
\* execution yielded no output parameters.  With capture_output_params =
\* False the call returns the bare rows.
C18_CapturedOutputsNeverNull ==
    (frame.at \in {"exit", "done"} /\ frame.exc = "") =>
        IF call.capture_output_params
        THEN /\ DOMAIN frame.value = {"rows", "output_params"}
             /\ frame.value.rows = frame.rows
             /\ frame.value.output_params # PyNone
             /\ YieldsNoOutputs => frame.value.output_params = EmptyDict
        ELSE frame.value = frame.rows

\* a capturing named call has returned after the cursor held None as its
\* output parameters
C18_Witness ==
    /\ frame.at = "done"
    /\ frame.exc = ""
    /\ call.capture_output_params
    /\ call.shape = "mapping"
    /\ frame.cursor.has
    /\ frame.cursor.value = PyNone

\* the values of a mapping, in insertion order
ValuesOf(items) == [i \in DOMAIN items |-> items[i][2]]

\* C19: Name/value binding alignment.  For a named-parameter call, the call
\* text lists the names of the mapping in insertion order, each once, and
\* the i-th bound value is the normalized value of the i-th name.
C19_BindingAlignment ==
    (call.shape = "mapping" /\ frame.at \in {"exit", "done"}
                            /\ frame.session # 0) =>
        /\ NamesListed(frame.sql) = Keys(call.items)
        /\ Cardinality(Fragments(frame.sql, "=?")) = Len(call.items)
        /\ Len(frame.values) = Len(call.items)
        /\ \A i \in DOMAIN call.items :
               frame.values[i] =
                   normalize(call.items[i][1], call.items[i][2],
                             Get(frame.type_mappings, call.items[i][1], NoType))

\* a call with two names has returned, and normalization changed what is
\* bound to each of them
C19_Witness ==
    /\ call.shape = "mapping"
    /\ frame.at = "done"
    /\ frame.exc = ""
    /\ Len(call.items) = 2
    /\ \A i \in DOMAIN call.items : frame.values[i] # call.items[i][2]
    /\ frame.values[1] # frame.values[2]

\* the fetch raised, returned nothing, or returned a row that cannot be read
FetchFailed ==
    /\ frame.at # "none"
    /\ frame.fetched \in {"connect_fails", "execute_fails", "no_rows",
                          "unreadable_row"}

\* the sessions entered since the call began
SessionsOfCall ==
    {trace[i].session :
        i \in {j \in Ops("open") : \A k \in Ops("invoke") : k < j}}

\* C20: Metadata-fetch failure is non-fatal.  If the fetch fails or returns
\* nothing, the type mapping is empty, the call goes on to execute the
\* procedure, and every value is bound exactly as supplied; an explicitly
\* supplied type mapping is the one used, and no metadata is fetched.
C20_MetadataFailureNonFatal ==
    /\ FetchFailed =>
           /\ frame.type_mappings = EmptyMap
           /\ frame.at \in {"body", "exit", "done"}
           /\ frame.at \in {"exit", "done"} =>
                  /\ Cardinality(StatementsOfCall) = 1
                  /\ frame.values = ValuesOf(call.items)
                  /\ frame.exc \in {"", "DatabaseError"}
    /\ (caller.kind = "direct" /\ call.shape = "mapping"
                               /\ call.type_mappings.given) =>
           /\ frame.fetched = ""
           /\ frame.type_mappings = call.type_mappings.map
           /\ SessionsOfCall \subseteq {frame.session}

\* a call with two parameters has returned although the metadata query
\* raised
C20_Witness ==
    /\ frame.at = "done"
    /\ frame.fetched = "execute_fails"
    /\ frame.exc = ""
    /\ Len(call.items) = 2
    /\ frame.values = ValuesOf(call.items)


(***************************************************************************)
(* The normalizer (core/db/sql_normalizer.py) applied on its own: one call *)
(* of normalize or of normalize_parameters with arguments drawn from the   *)
(* sets below, and its return.                                             *)
(***************************************************************************)
\* no chain, no executor call and no procedure call is in progress
NothingElseRuns ==
    /\ chain_config = <<>>
    /\ pc = "none"
    /\ idx = 0
    /\ execution_results = EmptyDict
    /\ chain_data = EmptyDict
    /\ base_parameters = EmptyDict
    /\ outcome = EmptyDict
    /\ calls = <<>>
    /\ executor = 1
    /\ returned = <<>>
    /\ caller = [kind |-> "none"]
    /\ call = [shape |-> "none"]
    /\ frame = [at |-> "none"]
    /\ trace = <<>>

\* texts in ISO form, alone, padded, followed by a time or by other text
IsoTexts ==
    { <<"2", "0", "2", "3", "-", "0", "5", "-", "0", "1">>,
      <<" ", "2", "0", "2", "3", "-", "0", "5", "-", "0", "1", " ">>,
      <<"2", "0", "2", "3", "-", "0", "5", "-", "0", "1", " ",
        "1", "0", ":", "3", "0", ":", "0", "0">>,
      <<"1", "9", "0", "0", "-", "0", "1", "-", "0", "1", "x">> }

\* slash-delimited texts
SlashTexts ==
    { <<"1", "/", "2", "/", "2", "0", "2", "3">>,
      <<"1", "2", "/", "3", "1", "/", "9", "9">>,
      <<"0", "1", "/", "0", "1", "/", "1", "9", "0", "0">> }

\* texts that start with a month name
MonthNameTexts ==
    { <<"J", "a", "n", " ", "1", " ", "1", "9", "0", "0">>,
      <<"D", "e", "c", " ", " ", "3", "0", " ", "1", "9", "9", "5">>,
      <<"J", "a", "n", " ", "1", " ", "1", "9", "0", "0", " ",
        "1", "2", ":", "0", "0", "A", "M">> }

\* texts that are empty once stripped
BlankTexts == { <<>>, <<" ">>, <<" ", " ">> }

\* texts int accepts, texts only float accepts, texts neither accepts
IntegerTexts ==
    { <<"0">>, <<"3">>, <<" ", "3", " ">>, <<"-", "2">>, <<"+", "7">>,
      <<"0", "0">>, <<"1", "2">> }

FractionTexts ==
    { <<"2", ".", "5">>, <<"-", "2", ".", "9">>, <<".", "5">>, <<"3", ".">>,
      <<" ", "0", ".", "9">> }

NonFiniteTexts ==
    { <<"i", "n", "f">>, <<"-", "i", "n", "f">>, <<"n", "a", "n">> }

OtherTexts ==
    { <<"a", "b", "c">>, <<"1", "a">>, <<"-">>, <<".">>, <<"1", " ", "2">>,
      <<"1", ".", "2", ".", "3">>, <<"2", "0", "2", "3", "-", "5", "-", "1">>,
      <<"1", "/", "2">> }

Texts == IsoTexts \cup SlashTexts \cup MonthNameTexts \cup BlankTexts
         \cup IntegerTexts \cup FractionTexts \cup NonFiniteTexts
         \cup OtherTexts

Booleans == { PyBool(TRUE), PyBool(FALSE) }

IntegerValues == { PyInt(0), PyInt(1), PyInt(3), PyInt(-2) }

FiniteFloats ==
    { PyFloat(0), PyFloat(9), PyFloat(25), PyFloat(-25), PyFloat(-9),
      PyFloat(30) }

NonFiniteFloats == { PyNaN, PyInf(1), PyInf(-1) }

Dates == { PyDate(2023, 5, 1), PyDate(1999, 12, 31) }

DateTimes == { PyDateTime(2023, 5, 1, 9, 30, 7),
               PyDateTime(2000, 1, 1, 0, 0, 0) }

Times == { PyTime(9, 30, 7), PyTime(23, 0, 59) }

Strings == { PyStr(cs) : cs \in Texts }

Values ==
    {PyNone} \cup Booleans \cup IntegerValues \cup FiniteFloats
    \cup NonFiniteFloats \cup Dates \cup DateTimes \cup Times
    \cup { PyArray(1) } \cup Strings

\* the declared types: None, the types with a rule, and types without
SqlTypes ==
    {NoType, "DATE", "TIME", "BIT", "VARCHAR", "FLOAT", "int"}
    \cup DateTimeTypes \cup IntegerTypes \cup DecimalTypes

NormalizeCalls ==
    { [fn |-> "normalize", param_name |-> ParamA, value |-> v,
       sql_type |-> ty] : v \in Values, ty \in SqlTypes }

\* the most parameters of a call of normalize_parameters
MaxParams == 2

ParamC == "@c"

ParamNames == {ParamA, ParamB, ParamC}

\* a text and a boolean the rules change, an array that fails the
\* comparison, the zero DATE turns into None, a float
ParameterValues ==
    { PyStr(<<" ", "3", " ">>), PyBool(TRUE), PyArray(1), PyInt(0),
      PyFloat(25) }

\* the dictionaries of up to MaxParams parameters, in every insertion order
ParameterDicts ==
    { items \in UNION { [1..n -> ParamNames \X ParameterValues] :
                            n \in 0..MaxParams } :
        \A i, j \in DOMAIN items : i # j => items[i][1] # items[j][1] }

\* type mappings for some of the names, None standing for no mapping
TypeMappingsFor(names) ==
    UNION { [S -> {"INT", "BIT", "DATE"}] : S \in SUBSET names }

NormalizeParametersCalls ==
    { [fn |-> "normalize_parameters", parameters |-> items,
       type_mappings |-> tm] :
          items \in ParameterDicts, tm \in TypeMappingsFor(ParamNames) }

InitNormalizer ==
    /\ NothingElseRuns
    /\ fn_args \in NormalizeCalls \cup NormalizeParametersCalls
    /\ fn_value = [done |-> FALSE]

\* normalize(param_name, value, sql_type) runs and returns, or raises
CallNormalize ==
    /\ fn_args.fn = "normalize"
    /\ ~fn_value.done
    /\ fn_value' =
         [done |-> TRUE,
          result |-> normalize(fn_args.param_name, fn_args.value,
                               fn_args.sql_type),
          float_called |-> ReachesFloat(fn_args.value, fn_args.sql_type)]
    /\ UNCHANGED <<chain_vars, reuse_vars, invoker_vars, fn_args>>

\* normalize_parameters(parameters, type_mappings) runs and returns
CallNormalizeParameters ==
    /\ fn_args.fn = "normalize_parameters"
    /\ ~fn_value.done
    /\ fn_value' =
         [done |-> TRUE,
          result |-> normalize_parameters(fn_args.parameters,
                                          fn_args.type_mappings)]
    /\ UNCHANGED <<chain_vars, reuse_vars, invoker_vars, fn_args>>

NextNormalizer ==
    \/ CallNormalize
    \/ CallNormalizeParameters

SpecNormalizer == InitNormalizer /\ [][NextNormalizer]_vars


(***************************************************************************)
(* Properties of the normalizer, stated over the call and what it          *)
(* returned.                                                               *)
(***************************************************************************)
\* normalize was called with this type and has finished
Normalized(types) ==
    /\ fn_args.fn = "normalize"
    /\ fn_value.done
    /\ fn_args.sql_type \in types

\* C21: without a declared type normalize returns the value it was given,
\* whatever the value, and under every declared type it returns None for
\* None.
C21_IdentityAndNull ==
    /\ Normalized({NoType}) => fn_value.result = fn_args.value
    /\ Normalized(SqlTypes) /\ fn_args.value = PyNone
           => fn_value.result = PyNone

\* a text an integer type would convert went through unchanged for want of
\* a declared type
C21_Witness ==
    /\ Normalized({NoType})
    /\ fn_args.value = PyStr(<<" ", "3", " ">>)
    /\ fn_value.result = PyStr(<<" ", "3", " ">>)


\* the value is a text the numeric rule of the type cannot parse
Unparseable(value, sql_type) ==
    \/ /\ sql_type \in IntegerTypes
       /\ value \in { PyStr(cs) : cs \in OtherTexts \cup NonFiniteTexts }
    \/ /\ sql_type = "BIT"
       /\ value \in { PyStr(cs) : cs \in OtherTexts \cup NonFiniteTexts
                                         \cup FractionTexts }

\* the value is of a type the rule of the declared type does not provide
\* for
UnexpectedType(value, sql_type) ==
    \/ value = PyArray(1)
    \/ /\ sql_type \in IntegerTypes \cup DecimalTypes \cup {"BIT"}
       /\ value \in Dates \cup DateTimes \cup Times
    \/ /\ sql_type \in DateTimeTypes \cup {"DATE"}
       /\ value \in Times \cup FiniteFloats
    \/ /\ sql_type = "TIME"
       /\ value \in Dates \cup FiniteFloats \cup IntegerValues \cup Booleans
    \/ /\ sql_type = "BIT"
       /\ value \in FiniteFloats

\* C22: normalize returns a value for every value and declared type, it
\* never raises; where the rule of the type cannot be applied to the value
\* (a text that does not parse, a float that is not finite, a value of an
\* unexpected type) it returns the value it was given.
C22_NeverAborts ==
    Normalized(SqlTypes) =>
        /\ fn_value.result.t # "raised"
        /\ \/ Unparseable(fn_args.value, fn_args.sql_type)
           \/ fn_args.value \in NonFiniteFloats
           \/ UnexpectedType(fn_args.value, fn_args.sql_type)
           => fn_value.result = fn_args.value

\* int(float('inf')) raised OverflowError inside the integer rule and the
\* call returned the infinity
C22_Witness ==
    /\ Normalized(IntegerTypes)
    /\ fn_args.value = PyInf(1)
    /\ IntOfFloat(fn_args.value) = Raised("OverflowError")
    /\ fn_value.result = PyInf(1)


\* the texts of the three date shapes
DateShapedTexts == IsoTexts \cup SlashTexts \cup MonthNameTexts

\* C23: under an integer type a date-shaped text (ISO, slash-delimited or
\* starting with a month name) is returned as it was given: nothing is
\* raised and float is never called on it.
C23_IntegerDateGuard ==
    /\ Normalized(IntegerTypes)
    /\ fn_args.value \in { PyStr(cs) : cs \in DateShapedTexts }
    => /\ fn_value.result = fn_args.value
       /\ ~fn_value.float_called

\* "1/2/2023" under INT came back unchanged and unparsed
C23_Witness ==
    /\ Normalized({"INT"})
    /\ fn_args.value = PyStr(<<"1", "/", "2", "/", "2", "0", "2", "3">>)
    /\ fn_value.result = fn_args.value
    /\ ~fn_value.float_called


\* what the numeric texts stand for, truncated toward zero
TruncatedTexts ==
    { << <<"0">>, 0 >>, << <<"3">>, 3 >>, << <<" ", "3", " ">>, 3 >>,
      << <<"-", "2">>, -2 >>, << <<"+", "7">>, 7 >>, << <<"0", "0">>, 0 >>,
      << <<"1", "2">>, 12 >>, << <<"2", ".", "5">>, 2 >>,
      << <<"-", "2", ".", "9">>, -2 >>, << <<".", "5">>, 0 >>,
      << <<"3", ".">>, 3 >>, << <<" ", "0", ".", "9">>, 0 >> }

\* the finite floats (in tenths), truncated toward zero
TruncatedFloats ==
    { <<0, 0>>, <<9, 0>>, <<25, 2>>, <<-25, -2>>, <<-9, 0>>, <<30, 3>> }

\* C24: under an integer type a boolean becomes 0 or 1, a finite float
\* its integer part, an empty or blank text 0, a numeric text that is not
\* date-shaped the integer part of its float value, a text that is neither
\* date-shaped nor numeric itself, and an integer itself.
C24_IntegerCoercion ==
    Normalized(IntegerTypes) =>
        /\ fn_args.value = PyBool(TRUE) => fn_value.result = PyInt(1)
        /\ fn_args.value = PyBool(FALSE) => fn_value.result = PyInt(0)
        /\ \A p \in TruncatedFloats :
               fn_args.value = PyFloat(p[1]) => fn_value.result = PyInt(p[2])
        /\ fn_args.value \in { PyStr(cs) : cs \in BlankTexts }
               => fn_value.result = PyInt(0)
        /\ \A p \in TruncatedTexts :
               fn_args.value = PyStr(p[1]) => fn_value.result = PyInt(p[2])
        /\ fn_args.value \in { PyStr(cs) : cs \in OtherTexts }
               => fn_value.result = fn_args.value
        /\ fn_args.value \in IntegerValues
               => fn_value.result = fn_args.value

\* "-2.9" under an integer type became -2; every numeric text and finite
\* float of the inputs has its integer part listed
C24_Witness ==
    /\ Normalized(IntegerTypes)
    /\ fn_args.value = PyStr(<<"-", "2", ".", "9">>)
    /\ fn_value.result = PyInt(-2)
    /\ { p[1] : p \in TruncatedTexts } = IntegerTexts \cup FractionTexts
    /\ { PyFloat(p[1]) : p \in TruncatedFloats } = FiniteFloats


\* the integers the integer texts stand for
IntegerTextValues == { p \in TruncatedTexts : p[1] \in IntegerTexts }

\* what the boolean type makes of booleans, integers and integer texts,
\* and that it leaves the values of other types alone
BitOfNumbers ==
    /\ fn_args.value = PyBool(TRUE) => fn_value.result = PyInt(1)
    /\ fn_args.value = PyBool(FALSE) => fn_value.result = PyInt(0)
    /\ \A i \in IntegerValues :
           fn_args.value = i
               => fn_value.result = PyInt(IF i = PyInt(0) THEN 0 ELSE 1)
    /\ \A p \in IntegerTextValues :
           fn_args.value = PyStr(p[1])
               => fn_value.result = PyInt(IF p[2] = 0 THEN 0 ELSE 1)
    /\ fn_args.value \in Values \ (Booleans \cup IntegerValues \cup Strings)
           => fn_value.result = fn_args.value

\* C25 as stated: under the boolean type true gives 1, false 0, an integer
\* 1 if nonzero else 0, the empty text 0, a text that parses as an integer
\* 1 if nonzero else 0, every text that does not parse as an integer
\* itself, and every other value itself.
C25_BooleanCoercion ==
    Normalized({"BIT"}) =>
        /\ BitOfNumbers
        /\ fn_args.value = PyStr(<<>>) => fn_value.result = PyInt(0)
        /\ fn_args.value \in { PyStr(cs) : cs \in Texts \ IntegerTexts }
           /\ fn_args.value # PyStr(<<>>)
               => fn_value.result = fn_args.value

\* C25 amended: as stated, but a text that is empty or holds only blanks
\* gives 0, and a text that is not blank and does not parse as an integer
\* gives itself.
C25_BooleanCoercionBlankIsZero ==
    Normalized({"BIT"}) =>
        /\ BitOfNumbers
        /\ fn_args.value \in { PyStr(cs) : cs \in BlankTexts }
               => fn_value.result = PyInt(0)
        /\ fn_args.value \in
               { PyStr(cs) : cs \in (Texts \ IntegerTexts) \ BlankTexts }
               => fn_value.result = fn_args.value

\* a text of one blank under BIT gave 0; every integer text of the inputs
\* has its integer listed
C25_Witness ==
    /\ Normalized({"BIT"})
    /\ fn_args.value = PyStr(<<" ">>)
    /\ fn_value.result = PyInt(0)
    /\ { p[1] : p \in IntegerTextValues } = IntegerTexts


\* the texts of 2023-05-01 and of 09:30:07
Text_2023_05_01 == <<"2", "0", "2", "3", "-", "0", "5", "-", "0", "1">>

Text_09_30_07 == <<"0", "9", ":", "3", "0", ":", "0", "7">>

\* C26: under DATE and the datetime types integer zero gives None, a date
\* or datetime its formatted text (a date under a datetime type with
\* midnight appended), and every value that is neither a date, a datetime
\* nor integer zero (a text, a nonzero integer, a float, a boolean) is
\* returned as it was given.
C26_DateRules ==
    Normalized(DateTimeTypes \cup {"DATE"}) =>
        /\ fn_args.value = PyInt(0) => fn_value.result = PyNone
        /\ fn_args.value \in {PyDate(2023, 5, 1),
                              PyDateTime(2023, 5, 1, 9, 30, 7)}
           /\ fn_args.sql_type = "DATE"
               => fn_value.result = PyStr(Text_2023_05_01)
        /\ fn_args.value = PyDateTime(2023, 5, 1, 9, 30, 7)
           /\ fn_args.sql_type \in DateTimeTypes
               => fn_value.result =
                      PyStr(Text_2023_05_01 \o <<" ">> \o Text_09_30_07)
        /\ fn_args.value = PyDate(2023, 5, 1)
           /\ fn_args.sql_type \in DateTimeTypes
               => fn_value.result = PyStr(Text_2023_05_01 \o Midnight)
        /\ fn_args.value \in Dates \cup DateTimes
               => fn_value.result.t = "str"
        /\ fn_args.value \notin Dates \cup DateTimes \cup {PyInt(0)}
               => fn_value.result = fn_args.value


\* C27 as stated: under a decimal type the empty text gives 0 and every
\* other value that is not None is returned as it was given.
C27_DecimalRule ==
    Normalized(DecimalTypes) =>
        /\ fn_args.value = PyStr(<<>>) => fn_value.result = PyInt(0)
        /\ fn_args.value \notin {PyStr(<<>>), PyNone}
               => fn_value.result = fn_args.value

\* C27 amended: under a decimal type a text that is empty or holds only
\* blanks gives 0 and every other value that is not None is returned as
\* it was given, numeric texts and floats included.
C27_DecimalRuleBlankIsZero ==
    Normalized(DecimalTypes) =>
        /\ fn_args.value \in { PyStr(cs) : cs \in BlankTexts }
               => fn_value.result = PyInt(0)
        /\ fn_args.value \notin { PyStr(cs) : cs \in BlankTexts } \cup {PyNone}
               => fn_value.result = fn_args.value

\* "2.5" under DECIMAL came back as the text
C27_Witness ==
    /\ Normalized({"DECIMAL"})
    /\ fn_args.value = PyStr(<<"2", ".", "5">>)
    /\ fn_value.result = PyStr(<<"2", ".", "5">>)


\* the declared type of a name, None when the mapping has no entry for it
DeclaredType(name) ==
    IF name \in DOMAIN fn_args.type_mappings
    THEN fn_args.type_mappings[name]
    ELSE NoType

\* C28: normalize_parameters returns a dictionary with the keys of the
\* parameters; the value under each key is normalize of that key's value
\* and that key's declared type, whatever the other keys hold and in
\* whatever order they come; a key without an entry in the type mapping
\* keeps its value; a key whose normalization fails keeps its value and
\* leaves the other keys' results as they would be without it.
C28_PerKeyIndependence ==
    fn_args.fn = "normalize_parameters" /\ fn_value.done =>
        /\ Keys(fn_value.result) = Keys(fn_args.parameters)
        /\ \A i \in DOMAIN fn_args.parameters :
               LET name  == fn_args.parameters[i][1]
                   value == fn_args.parameters[i][2]
               IN  /\ Lookup(fn_value.result, name)
                          = normalize(name, value, DeclaredType(name))
                   /\ name \notin DOMAIN fn_args.type_mappings
                          => Lookup(fn_value.result, name) = value
                   /\ value = PyArray(1)
                          => Lookup(fn_value.result, name) = value

\* the comparison of the first key's array failed, and the second key's
\* text was still converted under its own type
C28_Witness ==
    /\ fn_args.fn = "normalize_parameters"
    /\ fn_value.done
    /\ fn_args.parameters = << <<ParamB, PyArray(1)>>,
                               <<ParamA, PyStr(<<" ", "3", " ">>)>> >>
    /\ fn_args.type_mappings = [n \in {ParamA, ParamB} |-> "INT"]
    /\ NotEqualRaises(PyArray(1), PyArray(1))
    /\ fn_value.result = << <<ParamB, PyArray(1)>>, <<ParamA, PyInt(3)>> >>


(***************************************************************************)
(* The test helpers (tests/helpers/sp_test_utils.py): _run_sql_list, which *)
(* runs the statements of a pre, post or cleanup list in one database      *)
(* session, followed from one statement to the next, and                   *)
(* _validate_post_state, applied to results and expectations of its own.   *)
(* A text of SQL is a sequence of fragments: words, blanks, placeholders.  *)
(***************************************************************************)
\* the replacement fields a text may hold
Placeholders == {"{id}"}

\* the contexts (context or {}): empty, or with a value for the field
Contexts == { [k \in {} |-> <<>>], [k \in {"{id}"} |-> <<"7">>] }

\* str.format(**context): KeyError when a field has no value
FormatRaises(text, context) ==
    \E i \in DOMAIN text : text[i] \in Placeholders \ DOMAIN context

RECURSIVE Substituted(_, _)
Substituted(text, context) ==
    IF text = <<>> THEN <<>>
    ELSE (IF Head(text) \in Placeholders THEN context[Head(text)]
          ELSE << Head(text) >>) \o Substituted(Tail(text), context)

\* formatted = sql.format(**context), and sql itself when that raises
Formatted(sql, context) ==
    IF FormatRaises(sql, context) THEN sql ELSE Substituted(sql, context)

\* str.upper() of a word
UpperWord(w) ==
    CASE w \in {"select", "Select"} -> "SELECT"
      [] w = "delete"               -> "DELETE"
      [] OTHER                       -> w

\* is_query = formatted.strip().upper().startswith('SELECT')
is_query(formatted) ==
    LET sql_upper == Strip(formatted)
    IN  sql_upper # <<>> /\ UpperWord(Head(sql_upper)) = "SELECT"

\* a list as a value: s holds the elements
PyList(elements) == [t |-> "list", n |-> 0, s |-> elements]

\* the most statements of a list
MaxStatements == 2

\* the entries of a list: a text, or a pair of a text and its parameters
SqlEntries ==
    { [pair |-> FALSE, sql |-> <<"SELECT", " ", "1">>, params |-> <<>>],
      [pair |-> TRUE, sql |-> <<" ", "select", " ", "{id}">>,
       params |-> <<>>],
      [pair |-> FALSE, sql |-> <<"DELETE", " ", "{id}">>, params |-> <<>>],
      [pair |-> TRUE, sql |-> <<"UPDATE", " ", "?">>,
       params |-> << PyInt(3) >>] }

SqlLists == UNION { [1..n -> SqlEntries] : n \in 0..MaxStatements }

RunSqlListCalls ==
    { [fn |-> "_run_sql_list", sql_list |-> l, context |-> c] :
          l \in SqlLists, c \in Contexts }

\* what the database replies to a query that runs: the rows and the
\* cursor's description (its column names, or None)
QueryReplies ==
    { [rows |-> <<>>, description |-> <<"Id">>],
      [rows |-> << <<PyInt(1)>> >>, description |-> <<"Id">>],
      [rows |-> << <<PyInt(1)>>, <<PyInt(2)>> >>, description |-> <<>>] }

\* cursor.rowcount after a statement that is not a query
RowCounts == {0, 2, -1}

\* col_names = [desc[0] for desc in description], [] without a description
ColumnNames(reply) == PyList(reply.description)

\* the entry of all_results for a statement that failed
FailureEntry == << PyNone, PyNone >>


\* the locals of _run_sql_list before the with statement
Started == [done |-> FALSE, at |-> "enter", i |-> 1, all_results |-> <<>>,
            session |-> 0, exc |-> ""]

\* the with block is entered: DBSession() connects
EnterList ==
    /\ fn_args.fn = "_run_sql_list"
    /\ ~fn_value.done
    /\ fn_value.at = "enter"
    /\ fn_value' = [fn_value EXCEPT !.at = "loop", !.session = NextSession]
    /\ trace' = Append(trace, Event("open", NextSession, 0))
    /\ UNCHANGED <<chain_vars, reuse_vars, caller, call, frame, fn_args>>

\* DBSession.__enter__ raises: the exception leaves _run_sql_list
EnterListFails ==
    /\ fn_args.fn = "_run_sql_list"
    /\ ~fn_value.done
    /\ fn_value.at = "enter"
    /\ \E e \in {"ValueError", "OperationalError"} :
         fn_value' = [fn_value EXCEPT !.done = TRUE, !.at = "raised",
                                      !.exc = e]
    /\ UNCHANGED <<chain_vars, reuse_vars, invoker_vars, fn_args>>

\* the loop is at an entry of the list
AtEntry ==
    /\ fn_args.fn = "_run_sql_list"
    /\ ~fn_value.done
    /\ fn_value.at = "loop"
    /\ fn_value.i <= Len(fn_args.sql_list)

\* the formatted text of the entry the loop is at
CurrentSql == Formatted(fn_args.sql_list[fn_value.i].sql, fn_args.context)

\* the iteration ends: the entry is appended and the loop goes on
Appended(entry) ==
    [fn_value EXCEPT !.all_results = Append(@, entry), !.i = @ + 1]

\* a query runs: execute, fetchall, the column names of the description
RunQuery ==
    /\ AtEntry
    /\ is_query(CurrentSql)
    /\ \E reply \in QueryReplies :
         fn_value' = Appended(<< PyList(reply.rows), ColumnNames(reply) >>)
    /\ trace' = trace \o << Event("execute", fn_value.session, fn_value.i),
                            Event("fetchall", fn_value.session, fn_value.i) >>
    /\ UNCHANGED <<chain_vars, reuse_vars, caller, call, frame, fn_args>>

\* a statement that is not a query runs: execute, then cursor.rowcount
RunStatement ==
    /\ AtEntry
    /\ ~is_query(CurrentSql)
    /\ \E affected_rows \in RowCounts :
         fn_value' = Appended(<< PyInt(affected_rows), PyNone >>)
    /\ trace' = Append(trace, Event("execute", fn_value.session, fn_value.i))
    /\ UNCHANGED <<chain_vars, reuse_vars, caller, call, frame, fn_args>>

\* variant: the exception of a statement is not caught; it leaves the with
\* block and the function
StatementFailsLeavingLoop ==
    /\ AtEntry
    /\ fn_value' = [fn_value EXCEPT !.done = TRUE, !.at = "raised",
                                    !.exc = "ProgrammingError"]
    /\ trace' = trace \o << Event("execute", fn_value.session, fn_value.i),
                            Event("raised", fn_value.session, fn_value.i) >>
                      \o __exit__(fn_value.session, "ProgrammingError", 0)
    /\ UNCHANGED <<chain_vars, reuse_vars, caller, call, frame, fn_args>>

\* cursor.execute raises, for a query or another statement: the except
\* clause appends (None, None)
StatementFails ==
    /\ AtEntry
    /\ fn_value' = Appended(FailureEntry)
    /\ trace' = trace \o << Event("execute", fn_value.session, fn_value.i),
                            Event("raised", fn_value.session, fn_value.i) >>
    /\ UNCHANGED <<chain_vars, reuse_vars, caller, call, frame, fn_args>>

\* a query is executed but fetchall raises (the statement produced no
\* result set): the outer except clause appends (None, None)
FetchFails ==
    /\ AtEntry
    /\ is_query(CurrentSql)
    /\ fn_value' = Appended(FailureEntry)
    /\ trace' = trace \o << Event("execute", fn_value.session, fn_value.i),
                            Event("fetchall", fn_value.session, fn_value.i),
                            Event("raised", fn_value.session, fn_value.i) >>
    /\ UNCHANGED <<chain_vars, reuse_vars, caller, call, frame, fn_args>>

\* the list is exhausted: the with block is left without an exception and
\* all_results is returned
LeaveList ==
    /\ fn_args.fn = "_run_sql_list"
    /\ ~fn_value.done
    /\ fn_value.at = "loop"
    /\ fn_value.i > Len(fn_args.sql_list)
    /\ fn_value' = [fn_value EXCEPT !.done = TRUE, !.at = "returned"]
    /\ trace' = trace \o __exit__(fn_value.session, "", 0)
    /\ UNCHANGED <<chain_vars, reuse_vars, caller, call, frame, fn_args>>

\* a == b of two values: numbers compare by what they are worth, whatever
\* their type; a float is held in tenths
PyEq(a, b) ==
    LET Number(v) == v.t \in {"bool", "int", "float"}
        Tenths(v) == IF v.t = "float" THEN v.n ELSE 10 * v.n
    IN  IF Number(a) /\ Number(b) THEN Tenths(a) = Tenths(b) ELSE a = b

\* str.lower() of a column name
lower(name) ==
    CASE name \in {"Status", "STATUS", "status"} -> "status"
      [] name \in {"Id", "ID", "id"}             -> "id"
      [] OTHER                                    -> name

\* dict(zip(col_names, row_list)): a name that comes twice keeps its last
\* value
RECURSIVE Zipped(_, _, _)
Zipped(col_names, row_list, items) ==
    IF col_names = <<>> THEN items
    ELSE Zipped(Tail(col_names), Tail(row_list),
                SetItem(items, Head(col_names), Head(row_list)))

\* _row_to_dict(row, col_names) of a row that is a tuple or a pyodbc.Row
\* (neither a dict nor an object with keys): the dictionary, or the row
\* itself when the names are missing or do not fit
_row_to_dict(row, col_names) ==
    IF Truthy(col_names) /\ Len(col_names.s) = Len(row)
    THEN [dict |-> TRUE, items |-> Zipped(col_names.s, row, <<>>)]
    ELSE [dict |-> FALSE, items |-> row]

\* actual_val for an expected column: the value under the name, else under
\* the first name that is the same in lower case, else None
ActualValue(row_dict, col_name) ==
    LET same == {i \in DOMAIN row_dict.items :
                     lower(row_dict.items[i][1]) = lower(col_name)}
    IN  IF ~row_dict.dict THEN PyNone
        ELSE IF \E i \in DOMAIN row_dict.items :
                    row_dict.items[i][1] = col_name
        THEN Lookup(row_dict.items, col_name)
        ELSE IF same # {}
        THEN row_dict.items[CHOOSE i \in same : \A j \in same : i <= j][2]
        ELSE PyNone

\* _format_dict(d, ctx): the values that are texts are formatted
_format_dict(d, ctx) ==
    [i \in DOMAIN d |->
        << d[i][1],
           IF d[i][2].t = "str" THEN PyStr(Formatted(d[i][2].s, ctx))
           ELSE d[i][2] >>]

\* len(result_set) raises TypeError for a result set that is a count
LenRaises(result_set) == result_set.t # "list"

\* the column check of one result against one expectation is reached:
\* expected_columns is given and the result set is true
ChecksColumns(result_set, expected) ==
    "expected_columns" \in DOMAIN expected /\ Truthy(result_set)

\* one iteration of the loop of _validate_post_state, for a result that
\* has an expectation: "pass", "fail", or "TypeError" when len is asked of
\* a count
CheckResult(result_tuple, expected, context) ==
    LET result_set == result_tuple[1]
        col_names  == result_tuple[2]
        row_dict   == _row_to_dict(result_set.s[1], col_names)
        expected_cols == _format_dict(expected.expected_columns, context)
    IN  IF result_set = PyNone THEN "fail"
        ELSE IF /\ LenRaises(result_set)
                /\ \/ "row_count" \in DOMAIN expected
                   \/ ChecksColumns(result_set, expected)
        THEN "TypeError"
        ELSE IF /\ "row_count" \in DOMAIN expected
                /\ Len(result_set.s) # expected.row_count
        THEN "fail"
        ELSE IF /\ ChecksColumns(result_set, expected)
                /\ Len(result_set.s) > 0
                /\ \E i \in DOMAIN expected_cols :
                       ~PyEq(ActualValue(row_dict, expected_cols[i][1]),
                             expected_cols[i][2])
        THEN "fail"
        ELSE "pass"

\* a dictionary given where a list is expected
PyDict(d) == [t |-> "dict", n |-> 0, s |-> d]

\* _validate_post_state(results, expected_config, context): all_pass, or
\* the TypeError that leaves the loop
_validate_post_state(results, expected_config, context) ==
    LET config  == IF expected_config.t = "list" THEN expected_config.s
                   ELSE << expected_config.s >>
        checked == {at \in DOMAIN results : at <= Len(config)}
        Outcome(at) == CheckResult(results[at], config[at], context)
    IN  IF \E at \in checked : Outcome(at) = "TypeError"
        THEN Raised("TypeError")
        ELSE PyBool(\A at \in checked : Outcome(at) = "pass")

\* the most results, and the most expectations, of a validation
MaxResults == 2

Active == PyStr(<<"Active">>)

Inactive == PyStr(<<"Inactive">>)

\* what _run_sql_list returns for a statement: rows with their column
\* names (one row, none, two, names in another case, names missing), an
\* affected count, zero affected, or the failure entry
ResultEntries ==
    { << PyList(<< <<Active>> >>), PyList(<<"Status">>) >>,
      << PyList(<< <<Inactive>> >>), PyList(<<"STATUS">>) >>,
      << PyList(<<>>), PyList(<<"Status">>) >>,
      << PyList(<< <<Active, PyInt(7)>>, <<Inactive, PyInt(8)>> >>),
         PyList(<<"status", "Id">>) >>,
      << PyList(<< <<Active>> >>), PyList(<<>>) >>,
      << PyInt(2), PyNone >>,
      << PyInt(0), PyNone >>,
      FailureEntry }

\* the expectations of a fixture: row_count, expected_columns, both or
\* neither
Expectations ==
    { [row_count |-> 1,
       expected_columns |-> << <<"Status", Active>> >>],
      [row_count |-> 1],
      [row_count |-> 0],
      [expected_columns |-> << <<"Status", Active>> >>],
      [expected_columns |-> << <<"Id", PyStr(<<"{id}">>)>>,
                               <<"Status", Active>> >>],
      [expected_columns |-> << <<"Missing", PyNone>> >>],
      [k \in {} |-> 0] }

ValidateCalls ==
    { [fn |-> "_validate_post_state", results |-> r,
       expected_config |-> e, context |-> [k \in {"{id}"} |-> <<"7">>]] :
          r \in UNION { [1..n -> ResultEntries] : n \in 0..MaxResults },
          e \in { PyList(l) :
                    l \in UNION { [1..n -> Expectations] :
                                     n \in 0..MaxResults } }
                \cup { PyDict(d) : d \in Expectations } }

\* _validate_post_state(results, expected_config, context) runs and
\* returns its verdict, or raises
CallValidate ==
    /\ fn_args.fn = "_validate_post_state"
    /\ ~fn_value.done
    /\ fn_value' =
         [done |-> TRUE,
          result |-> _validate_post_state(fn_args.results,
                                          fn_args.expected_config,
                                          fn_args.context)]
    /\ UNCHANGED <<chain_vars, reuse_vars, invoker_vars, fn_args>>

InitHarness ==
    /\ NothingElseRuns
    /\ \/ fn_args \in RunSqlListCalls /\ fn_value = Started
       \/ fn_args \in ValidateCalls /\ fn_value = [done |-> FALSE]

NextHarness ==
    \/ EnterList
    \/ EnterListFails
    \/ RunQuery
    \/ RunStatement
    \/ StatementFails
    \/ FetchFails
    \/ LeaveList
    \/ CallValidate

SpecHarness == InitHarness /\ [][NextHarness]_vars


(***************************************************************************)
(* Properties of the test helpers.                                         *)
(***************************************************************************)
\* _run_sql_list is running or has finished, with its session entered
ListEntered == fn_args.fn = "_run_sql_list" /\ fn_value.session # 0

\* the k-th statement was handed to the database, once
ExecutedOnce(k) ==
    Cardinality({i \in Ops("execute") :
                    trace[i].step = k /\ trace[i].session = fn_value.session})
        = 1

\* the execution of the k-th statement raised
FailedAt(k) == \E i \in Ops("raised") : trace[i].step = k

\* C29: _run_sql_list keeps one result entry per statement, in the order
\* of the statements; a statement whose execution fails has the failure
\* entry (None, None) and no other statement has it; every statement of the
\* list is executed, those after a failed one included; all of it happens
\* in the one session opened for the list, which is left when the list ends.
C29_NonFatalStatementFailure ==
    ListEntered =>
        /\ Len(fn_value.all_results) = fn_value.i - 1
        /\ fn_value.done
               => /\ fn_value.at = "returned"
                  /\ Len(fn_value.all_results) = Len(fn_args.sql_list)
        /\ \A k \in DOMAIN fn_value.all_results :
               /\ ExecutedOnce(k)
               /\ FailedAt(k) <=> fn_value.all_results[k] = FailureEntry
               /\ ~FailedAt(k) =>
                      fn_value.all_results[k][1].t =
                          IF is_query(Formatted(fn_args.sql_list[k].sql,
                                                fn_args.context))
                          THEN "list" ELSE "int"
        /\ \A i, j \in Ops("execute") :
               i < j => trace[i].step < trace[j].step
        /\ Cardinality(Ops("open")) = 1
        /\ \A i \in DOMAIN trace : trace[i].session = fn_value.session
        /\ fn_value.done <=> Released(fn_value.session, Len(trace) + 1)

\* the first of two statements failed, the second ran in the same session
\* and has its rows, and the session was left
C29_Witness ==
    /\ ListEntered
    /\ fn_value.at = "returned"
    /\ Len(fn_args.sql_list) = 2
    /\ FailedAt(1)
    /\ ~FailedAt(2)
    /\ fn_value.all_results[1] = FailureEntry
    /\ fn_value.all_results[2] = << PyList(<< <<PyInt(1)>> >>),
                                    PyList(<<"Id">>) >>
    /\ ExecutedOnce(2)


\* the expectations as a list: a single dictionary stands for a list of one
ExpectedList ==
    IF fn_args.expected_config.t = "list" THEN fn_args.expected_config.s
    ELSE << fn_args.expected_config.s >>

\* the result has the expected number of rows
HasRowCount(result_tuple, row_count) ==
    /\ result_tuple[1].t = "list"
    /\ Len(result_tuple[1].s) = row_count

\* the first row of the result has a column of that name, whatever the
\* case of its letters, holding the expected value
FirstRowHas(result_tuple, col_name, expected_val) ==
    /\ result_tuple[1].t = "list"
    /\ result_tuple[1].s # <<>>
    /\ result_tuple[2].t = "list"
    /\ \E c \in DOMAIN result_tuple[2].s :
           /\ c <= Len(result_tuple[1].s[1])
           /\ lower(result_tuple[2].s[c]) = lower(col_name)
           /\ PyEq(result_tuple[1].s[1][c], expected_val)

\* the result meets its expectation: the row count when one is specified,
\* and every expected column on the first row
Meets(result_tuple, expected) ==
    /\ "row_count" \in DOMAIN expected
           => HasRowCount(result_tuple, expected.row_count)
    /\ "expected_columns" \in DOMAIN expected
           => LET cols == _format_dict(expected.expected_columns,
                                       fn_args.context)
              IN  \A i \in DOMAIN cols :
                      FirstRowHas(result_tuple, cols[i][1], cols[i][2])

\* C30: _validate_post_state returns true exactly when every result that
\* has an expectation at its position meets it: its row count equals
\* row_count when row_count is specified, and every expected column, found
\* among the first row's columns without regard to case, equals its
\* expected value.  One row with Status "Active" passes against
\* {row_count: 1, expected_columns: {Status: "Active"}}, one with
\* "Inactive" fails.
C30_ValidationVerdict ==
    fn_args.fn = "_validate_post_state" /\ fn_value.done =>
        (fn_value.result = PyBool(TRUE)
            <=> \A at \in DOMAIN fn_args.results :
                    at <= Len(ExpectedList)
                        => Meets(fn_args.results[at], ExpectedList[at]))


(***************************************************************************)
(* Properties of execute_chain as a state machine.                         *)
(***************************************************************************)
\* the call has returned its outcome
Terminal == pc = "returned"

\* every iteration so far was of the entry at its own position, in order
InSequenceOrder == \A i \in CallIds : calls[i].idx = i - 1

\* the i-th entry was invoked and passed its status check
Passed(i) == calls[i].invoked /\ calls[i].verdict = "succeeded"

\* C32: execute_chain ends: every run reaches the terminal state, where the
\* outcome is COMPLETED (success = true) or ABORTED (success = false) and
\* nothing changes any more; each entry is invoked at most once, in
\* sequence order, and none is skipped before the first failure; success =
\* true is returned only when all entries were invoked and every one passed
\* its status check.
C32_ChainTerminates ==
    /\ <>Terminal
    /\ [][~Terminal]_vars
    /\ [](/\ Terminal => outcome.success \in BOOLEAN
          /\ Len(calls) <= Len(chain_config)
          /\ InSequenceOrder
          /\ \A i \in CallIds : i < Len(calls) => Passed(i)
          /\ Terminal /\ outcome.success
                 => /\ Len(calls) = Len(chain_config)
                    /\ \A i \in CallIds : Passed(i))

\* a chain of three entries completed after three invocations
C32_Witness ==
    /\ Terminal
    /\ outcome.success
    /\ Len(chain_config) = 3
    /\ Len(calls) = 3
    /\ \A i \in CallIds : Passed(i)


\* the step just taken is an iteration that failed its status check
FailingStep ==
    /\ Len(calls') = Len(calls) + 1
    /\ calls'[Len(calls')].verdict = "failed"

\* the mapping changed at that key at most
ChangedOnlyAt(before, after, key) ==
    /\ DOMAIN before \subseteq DOMAIN after
    /\ \A k \in DOMAIN after \ {key} : k \in DOMAIN before /\ after[k] = before[k]

\* C34: a step that fails its status check leaves ChainData and
\* BaseParameters exactly as they were before the step (the snapshot and
\* the extraction come after a passed check only); what it changes of the
\* executor's state is the entry of the results mapping under its own label.
C34_FailingStepWritesNothing ==
    [][FailingStep =>
          /\ chain_data' = chain_data
          /\ base_parameters' = base_parameters
          /\ chain_config' = chain_config
          /\ ChangedOnlyAt(execution_results, execution_results',
                           StepLabel(calls'[Len(calls')].step_num))
          /\ execution_results'[StepLabel(calls'[Len(calls')].step_num)]
                 = calls'[Len(calls')].result]_vars

\* a step numbered 1 with a parameter and an output mapping failed on a row
\* that holds a positive number: nothing was snapshotted or extracted
C34_Witness ==
    /\ calls # <<>>
    /\ LET c == calls[Len(calls)]
       IN  /\ c.verdict = "failed"
           /\ c.step_num = 1
           /\ c.params # EmptyDict
           /\ "output_mapping" \in DOMAIN ConfigOf(c)
           /\ c.result.rows # <<>>
           /\ ScanBackwards(c.result.rows[1], Len(c.result.rows[1])) # 0
           /\ StepLabel(1) \in DOMAIN execution_results
    /\ chain_data = EmptyDict
    /\ base_parameters = EmptyDict


\* the iteration passed its status check and its entry maps an output to
\* that chain key
MapsOutputTo(i, key) ==
    /\ calls[i].verdict = "succeeded"
    /\ \E m \in DOMAIN OutputMappingOf(calls[i]) :
           OutputMappingOf(calls[i])[m][2] = key

\* the value is a column of the first row the iteration's call returned
ColumnOfFirstRow(i, v) ==
    /\ calls[i].result.rows # <<>>
    /\ \E col \in AllColumns(FirstRow(calls[i])) : FirstRow(calls[i])[col] = v

\* C35: in an executor that started with empty ChainData, every value held
\* in ChainData is a strictly positive number that is not a boolean and was
\* a column of the first result row of a step that passed its status check,
\* and its key is a chain key named in the output mapping of that step.
C35_ChainDataValues ==
    \A key \in DOMAIN chain_data :
        /\ IsPositiveNonBoolean(chain_data[key])
        /\ \E i \in CallIds :
               /\ MapsOutputTo(i, key)
               /\ ColumnOfFirstRow(i, chain_data[key])

\* a step stored 7 under k1, and a later step whose row held only a true
\* status left it there
C35_Witness ==
    /\ DOMAIN chain_data = {"k1"}
    /\ chain_data["k1"] = PyInt(7)
    /\ \E i \in CallIds :
           /\ MapsOutputTo(i, "k1")
           /\ calls[i].result.rows # <<>>
           /\ FirstRow(calls[i]) = << PyBool(TRUE), PyStr(<<"OK">>) >>
           /\ calls[i].chain_data = chain_data


\* C36: execute_chain never changes the caller's chain configuration: no
\* step of an execution, whether it succeeds, fails or raises, changes the
\* parameters, input_mapping or output_mapping of any entry (nor anything
\* else of chain_config), also when inheritance or input mapping made the
\* parameters sent differ from the entry's own.
C36_ConfigurationReadOnly == [][chain_config' = chain_config]_vars

\* a step was sent k1's value in place of its own @b, and a later step
\* returned: the chain ended with parameters sent that were not the entries'
C36_Witness ==
    /\ pc = "returned"
    /\ \E i \in CallIds :
           /\ calls[i].invoked
           /\ ParamB \in DOMAIN OwnParameters(calls[i])
           /\ ParamB \in DOMAIN InputMappingOf(calls[i])
           /\ calls[i].params[ParamB] # OwnParameters(calls[i])[ParamB]
    /\ \E i \in CallIds :
           /\ calls[i].step_num # 1
           /\ calls[i].invoked
           /\ calls[i].params # OwnParameters(calls[i])
           /\ calls[i].base # EmptyDict


(***************************************************************************)
(* Chains whose entries carry step numbers of their own.                   *)
(***************************************************************************)
\* an entry that says it is step 2, injects chain key k1 into its @b and
\* maps an output to k1; and an entry without a step field
NumberedSteps ==
    { StepConfig(Named, ("step" :> 2)
                        @@ ("parameters" :> (ParamB :> PyInt(20)))
                        @@ ("input_mapping" :> (ParamB :> "k1"))
                        @@ ("output_mapping" :> << <<ParamA, "k1">> >>)),
      StepConfig(Named, "parameters" :> (ParamA :> PyInt(10))) }

InitNumbered ==
    /\ chain_config \in ChainsOver(NumberedSteps)
    /\ pc = "loop"
    /\ idx = 0
    /\ execution_results = __init__.execution_results
    /\ chain_data = __init__.chain_data
    /\ base_parameters = __init__.base_parameters
    /\ outcome = EmptyDict
    /\ calls = <<>>
    /\ executor = 1
    /\ returned = <<>>
    /\ NoInvoker

SpecNumbered == InitNumbered /\ [][Next]_vars

\* no step numbered 1 has succeeded before iteration i
NoStepOneBefore(i) ==
    \A j \in 1..(i - 1) :
        ~(calls[j].step_num = 1 /\ calls[j].verdict = "succeeded")

\* C37: inheritance goes by step number, not by position.  A step is
\* numbered by its step field and by its 1-based position only when it has
\* none; a step whose number is not 1, built on a fresh executor while no
\* step numbered 1 has succeeded (the first entry carrying step 2, say),
\* finds BaseParameters empty and is invoked with exactly its own parameters
\* plus the values its input mapping injects.
C37_InheritanceKeyedByNumber ==
    \A i \in CallIds :
        LET c == calls[i]
        IN  /\ c.step_num = IF "step" \in DOMAIN ConfigOf(c)
                            THEN ConfigOf(c)["step"] ELSE i
            /\ (c.invoked /\ c.step_num # 1 /\ NoStepOneBefore(i)) =>
                   /\ c.base = EmptyDict
                   /\ DOMAIN c.params = DOMAIN OwnParameters(c) \cup Injected(c)
                   /\ \A p \in DOMAIN c.params :
                          c.params[p] =
                              IF p \in Injected(c)
                              THEN c.chain_data[InputMappingOf(c)[p]]
                              ELSE OwnParameters(c)[p]

\* the first entry carried step 2, was invoked with its own @b alone and
\* stored 7 under k1; the second, again step 2, was invoked with that 7 as
\* its @b and nothing inherited; the third, numbered 3 by its position, was
\* invoked with its own @a alone
C37_Witness ==
    /\ Len(calls) = 3
    /\ \A i \in CallIds : calls[i].invoked /\ NoStepOneBefore(i)
    /\ calls[1].step_num = 2
    /\ calls[1].params = (ParamB :> PyInt(20))
    /\ calls[2].step_num = 2
    /\ calls[2].params = (ParamB :> PyInt(7))
    /\ "step" \notin DOMAIN ConfigOf(calls[3])
    /\ calls[3].step_num = 3
    /\ calls[3].params = (ParamA :> PyInt(10))


\* the session run_stored_procedure entered for step k: the first one
\* opened for the step (0 when none was entered)
CallSession(k) ==
    LET opens == {i \in Ops("open") : trace[i].step = k}
    IN  IF opens = {} THEN 0
        ELSE trace[CHOOSE i \in opens : \A j \in opens : i <= j].session

Committed(s) == \E i \in Ops("commit") : trace[i].session = s

RolledBack(s) == \E i \in Ops("rollback") : trace[i].session = s

\* the chain was aborted by the status row of its last step: the call
\* returned and the check failed
FailedByStatus ==
    /\ caller.kind = "chain"
    /\ caller.state = "aborted"
    /\ frame.exc = ""

\* the invocation of step k raised inside its session
RaisedInSession(k) ==
    /\ k = caller.step
    /\ frame.at \in {"exit", "done"}
    /\ frame.exc # ""

\* C38: there is no rollback at the level of the chain.  When a step fails
\* by its status row, without an exception, the session of that step was
\* committed and is not rolled back; the sessions of the earlier steps were
\* committed and stay so after the chain aborts; the session of a step is
\* rolled back only when the invocation of that step raised, and then it is
\* not committed.
C38_NoChainLevelRollback ==
    caller.kind = "chain" =>
        /\ \A k \in 1..(caller.step - 1) :
               Committed(CallSession(k)) /\ ~RolledBack(CallSession(k))
        /\ FailedByStatus =>
               /\ Committed(CallSession(caller.step))
               /\ ~RolledBack(CallSession(caller.step))
        /\ \A k \in 1..caller.step :
               RolledBack(CallSession(k)) =>
                   RaisedInSession(k) /\ ~Committed(CallSession(k))
        /\ (caller.state = "aborted" /\ frame.exc # "" /\ frame.session # 0)
               => RolledBack(frame.session)

\* the second step of a chain failed by its status row: the sessions of
\* both steps are committed and nothing was rolled back
C38_Witness ==
    /\ FailedByStatus
    /\ caller.step = 2
    /\ Committed(CallSession(1))
    /\ Committed(CallSession(2))
    /\ CallSession(1) # CallSession(2)
    /\ Ops("rollback") = {}
    /\ trace[Len(trace)].op = "status"


(***************************************************************************)
(* The fixture runner (tests/helpers/sp_test_utils.py):                    *)
(* test_stored_procedures from the loop over the test cases on, with the   *)
(* fixture file loaded and filtered.  Its locals are held in `caller`; the *)
(* lists of SQL it runs and the validation it asks for are followed in     *)
(* _run_sql_list and _validate_post_state above; the procedure call and    *)
(* the chain execution are the environment's responses.  `trace` holds the *)
(* sessions of the case in progress.                                       *)
(***************************************************************************)
ParamId == "@id"

\* the replacement field that names a context key: k.lstrip('@') in braces
FieldOf(k) ==
    CASE k \in {"@id", "id"} -> "{id}"
      [] k \in {"@a", "a"}   -> "{a}"
      [] OTHER                -> k

\* str(v), as format() writes a value of the context
StrOf(v) == IF v.t = "str" THEN v.s ELSE Pad(v.n, 1)

\* a dictionary as the context it gives
AsContext(d) ==
    [f \in {FieldOf(k) : k \in DOMAIN d} |->
        StrOf(d[CHOOSE k \in DOMAIN d : FieldOf(k) = f])]

\* _make_context(params, chain_data): the parameters without their sigil,
\* then the chain data over them (generated_team_name, which no text of
\* the fixtures here names, is left out)
_make_context(params, cd) == Overlay(AsContext(params), AsContext(cd))

\* test_case.get(key) is true: a list that is there and is not empty
Has(test_case, key) ==
    key \in DOMAIN test_case /\ test_case[key] # <<>>

SelectId == [pair |-> TRUE, sql |-> <<" ", "select", " ", "{id}">>,
             params |-> <<>>]

SelectOne == [pair |-> FALSE, sql |-> <<"SELECT", " ", "1">>, params |-> <<>>]

DeleteId == [pair |-> FALSE, sql |-> <<"DELETE", " ", "{id}">>,
             params |-> <<>>]

\* the fixture cases: a single call whose post state is validated and
\* cleaned up; a chain with pre, post and cleanup SQL; a single call whose
\* second post statement is not a query but has a row count expected; a
\* single call alone; a case without parameters or chain
TestCases ==
    { ("parameters" :> (ParamId :> PyInt(1)))
        @@ ("post_sql" :> <<SelectId, DeleteId>>)
        @@ ("expected_post_state" :>
               << [row_count |-> 1,
                   expected_columns |-> << <<"Id", PyInt(1)>> >>],
                  [k \in {} |-> 0] >>)
        @@ ("cleanup_sql" :> <<DeleteId>>),
      ("chain_config" :>
           << StepConfig(Named, "parameters" :> (ParamId :> PyInt(1))) >>)
        @@ ("pre_sql" :> <<DeleteId>>)
        @@ ("post_sql" :> <<SelectOne>>)
        @@ ("expected_post_state" :> << [row_count |-> 1] >>)
        @@ ("cleanup_sql" :> <<DeleteId>>),
      ("parameters" :> EmptyDict)
        @@ ("post_sql" :> <<SelectOne, DeleteId>>)
        @@ ("expected_post_state" :>
               << [row_count |-> 1], [row_count |-> 2] >>),
      ("parameters" :> (ParamId :> PyInt(1))),
      [k \in {} |-> <<>>] }

\* the most test cases of a fixture file
MaxCases == 2

\* what run_stored_procedure does for a single call: it returns or raises
SingleOutcomes == {"", "DatabaseError"}

\* what _execute_chain_test does: it returns the outcome of execute_chain,
\* completed or aborted, or get_connection raises
ChainOutcomes ==
    { [exc |-> "", success |-> TRUE, chain_data |-> ("id" :> PyInt(9))],
      [exc |-> "", success |-> FALSE, chain_data |-> EmptyDict],
      [exc |-> "OperationalError", success |-> FALSE,
       chain_data |-> EmptyDict] }

NoCall == [fn |-> "none"]

NoValue == [done |-> FALSE]

\* the locals of test_stored_procedures when the loop begins
RunnerStarted(test_cases) ==
    [kind |-> "test_stored_procedures", test_cases |-> test_cases,
     at |-> "case", i |-> 1, case_passed |-> TRUE, test_results |-> <<>>,
     ctx |-> [k \in {} |-> <<>>], ctx2 |-> [k \in {} |-> <<>>],
     chain_result |-> PyNone, post_results |-> <<>>, validation |-> PyNone,
     exc |-> "", summary |-> [total |-> 0, passed |-> 0, failed |-> 0]]

Running == caller.kind = "test_stored_procedures"

\* the test case the loop is at
test_case == caller.test_cases[caller.i]

\* the runner leaves the call it made alone
RunnerOnly == UNCHANGED <<chain_vars, reuse_vars, call, frame, trace,
                          fn_args, fn_value>>

\* _run_sql_list(sql_list, context=context) is called
RunList(sql_list, context) ==
    /\ fn_args' = [fn |-> "_run_sql_list", sql_list |-> sql_list,
                   context |-> context]
    /\ fn_value' = Started
    /\ UNCHANGED <<chain_vars, reuse_vars, call, frame, trace>>

\* the parameters the contexts after the call are built from: those of the
\* first step of a chain, the case's own otherwise
ContextParams ==
    IF "chain_config" \in DOMAIN test_case
    THEN Get(test_case["chain_config"][1], "parameters", EmptyDict)
    ELSE Get(test_case, "parameters", EmptyDict)

\* (chain_result or {}).get('chain_data'), as _make_context takes it
ChainDataOf(chain_result) ==
    IF chain_result = PyNone THEN EmptyDict ELSE chain_result.chain_data

\* the loop takes the next case: case_passed = True, the first context
BeginCase ==
    /\ Running
    /\ caller.at = "case"
    /\ caller.i <= Len(caller.test_cases)
    /\ caller' = [caller EXCEPT
                     !.at = "pre", !.case_passed = TRUE,
                     !.ctx = _make_context(
                                 Get(test_case, "parameters", EmptyDict),
                                 EmptyDict),
                     !.ctx2 = [k \in {} |-> <<>>],
                     !.chain_result = PyNone, !.post_results = <<>>,
                     !.validation = PyNone, !.exc = ""]
    /\ trace' = <<>>
    /\ fn_args' = NoCall
    /\ fn_value' = NoValue
    /\ UNCHANGED <<chain_vars, reuse_vars, call, frame>>

\* if test_case.get('pre_sql'): _run_sql_list(...) is called
CallPreSql ==
    /\ Running
    /\ caller.at = "pre"
    /\ IF Has(test_case, "pre_sql")
       THEN /\ caller' = [caller EXCEPT !.at = "pre_sql"]
            /\ RunList(test_case["pre_sql"], caller.ctx)
       ELSE /\ caller' = [caller EXCEPT !.at = "call"]
            /\ RunnerOnly

\* the pre list has returned, or raised
PreSqlReturns ==
    /\ Running
    /\ caller.at = "pre_sql"
    /\ fn_value.done
    /\ caller' = IF fn_value.at = "raised"
                 THEN [caller EXCEPT !.at = "except", !.exc = fn_value.exc]
                 ELSE [caller EXCEPT !.at = "call"]
    /\ RunnerOnly

\* no chain_config: test_case['parameters'] is formatted and the procedure
\* is called through _execute_single_test
ExecuteSingle ==
    /\ Running
    /\ caller.at = "call"
    /\ "chain_config" \notin DOMAIN test_case
    /\ IF "parameters" \notin DOMAIN test_case
       THEN caller' = [caller EXCEPT !.at = "except", !.exc = "KeyError"]
       ELSE \E exc \in SingleOutcomes :
              caller' = IF exc # ""
                        THEN [caller EXCEPT !.at = "except", !.exc = exc]
                        ELSE [caller EXCEPT !.at = "post"]
    /\ RunnerOnly

\* variant: a chain that did not succeed fails the case and ends it
ExecuteChainFailingCase ==
    /\ Running
    /\ caller.at = "call"
    /\ "chain_config" \in DOMAIN test_case
    /\ \E o \in ChainOutcomes :
         caller' =
           IF o.exc # ""
           THEN [caller EXCEPT !.at = "except", !.exc = o.exc]
           ELSE IF ~o.success
           THEN [caller EXCEPT !.at = "record", !.case_passed = FALSE,
                               !.chain_result = [success |-> o.success,
                                                 chain_data |-> o.chain_data]]
           ELSE [caller EXCEPT !.at = "post",
                               !.chain_result = [success |-> o.success,
                                                 chain_data |-> o.chain_data]]
    /\ RunnerOnly

\* chain_config: chain_result = _execute_chain_test(...), whose success
\* flag is not read
ExecuteChain ==
    /\ Running
    /\ caller.at = "call"
    /\ "chain_config" \in DOMAIN test_case
    /\ \E o \in ChainOutcomes :
         caller' =
           IF o.exc # ""
           THEN [caller EXCEPT !.at = "except", !.exc = o.exc]
           ELSE [caller EXCEPT !.at = "post",
                               !.chain_result = [success |-> o.success,
                                                 chain_data |-> o.chain_data]]
    /\ RunnerOnly

\* if test_case.get('post_sql'): ctx2 is built (the first context over the
\* parameters and the chain data) and the post list is run; the first step
\* of an empty chain_config is an IndexError
CallPostSql ==
    /\ Running
    /\ caller.at = "post"
    /\ IF ~Has(test_case, "post_sql")
       THEN /\ caller' = [caller EXCEPT !.at = "cleanup"]
            /\ RunnerOnly
       ELSE IF Get(test_case, "chain_config", <<0>>) = <<>>
       THEN /\ caller' = [caller EXCEPT !.at = "except", !.exc = "IndexError"]
            /\ RunnerOnly
       ELSE LET ctx2 == Overlay(_make_context(
                                    ContextParams,
                                    ChainDataOf(caller.chain_result)),
                                caller.ctx)
            IN  /\ caller' = [caller EXCEPT !.at = "post_sql", !.ctx2 = ctx2]
                /\ RunList(test_case["post_sql"], ctx2)

\* the post list has returned, or raised; if test_case.get(
\* 'expected_post_state'): _validate_post_state is called
PostSqlReturns ==
    /\ Running
    /\ caller.at = "post_sql"
    /\ fn_value.done
    /\ IF fn_value.at = "raised"
       THEN /\ caller' = [caller EXCEPT !.at = "except", !.exc = fn_value.exc]
            /\ RunnerOnly
       ELSE IF Has(test_case, "expected_post_state")
       THEN /\ caller' = [caller EXCEPT !.at = "validate",
                                        !.post_results = fn_value.all_results]
            /\ fn_args' = [fn |-> "_validate_post_state",
                           results |-> fn_value.all_results,
                           expected_config |->
                               PyList(test_case["expected_post_state"]),
                           context |-> caller.ctx2]
            /\ fn_value' = NoValue
            /\ UNCHANGED <<chain_vars, reuse_vars, call, frame, trace>>
       ELSE /\ caller' = [caller EXCEPT !.at = "cleanup",
                                        !.post_results = fn_value.all_results]
            /\ RunnerOnly

\* validation_passed is back, or the validation raised: if not
\* validation_passed: case_passed = False
ValidationReturns ==
    /\ Running
    /\ caller.at = "validate"
    /\ fn_value.done
    /\ caller' =
         IF fn_value.result.t = "raised"
         THEN [caller EXCEPT !.at = "except", !.exc = fn_value.result.s,
                             !.validation = fn_value.result]
         ELSE [caller EXCEPT !.at = "cleanup",
                             !.validation = fn_value.result,
                             !.case_passed = IF Truthy(fn_value.result)
                                             THEN @ ELSE FALSE]
    /\ RunnerOnly

\* if test_case.get('cleanup_sql'): the cleanup list is run
CallCleanupSql ==
    /\ Running
    /\ caller.at = "cleanup"
    /\ IF ~Has(test_case, "cleanup_sql")
       THEN /\ caller' = [caller EXCEPT !.at = "record"]
            /\ RunnerOnly
       ELSE IF Get(test_case, "chain_config", <<0>>) = <<>>
       THEN /\ caller' = [caller EXCEPT !.at = "except", !.exc = "IndexError"]
            /\ RunnerOnly
       ELSE /\ caller' = [caller EXCEPT !.at = "cleanup_sql"]
            /\ RunList(test_case["cleanup_sql"],
                       Overlay(_make_context(
                                   ContextParams,
                                   ChainDataOf(caller.chain_result)),
                               caller.ctx))

\* the cleanup list has returned, or raised
CleanupReturns ==
    /\ Running
    /\ caller.at = "cleanup_sql"
    /\ fn_value.done
    /\ caller' = IF fn_value.at = "raised"
                 THEN [caller EXCEPT !.at = "except", !.exc = fn_value.exc]
                 ELSE [caller EXCEPT !.at = "record"]
    /\ RunnerOnly

\* variant: traceback is the module imported at the top of the file; the
\* error is logged and case_passed = False
HandleExceptionRecording ==
    /\ Running
    /\ caller.at = "except"
    /\ caller' = [caller EXCEPT !.at = "record", !.case_passed = FALSE]
    /\ RunnerOnly

\* except Exception as e: the message is logged, then traceback is read
\* where the import that follows in the same function makes it a local
\* name without a value yet: UnboundLocalError leaves the handler, the
\* loop and the function
HandleException ==
    /\ Running
    /\ caller.at = "except"
    /\ caller' = [caller EXCEPT !.at = "escaped", !.exc = "UnboundLocalError"]
    /\ RunnerOnly

\* test_results.append({'case_id': ..., 'passed': case_passed})
RecordCase ==
    /\ Running
    /\ caller.at = "record"
    /\ caller' = [caller EXCEPT
                     !.at = "case", !.i = @ + 1,
                     !.test_results =
                         Append(@, [case |-> caller.i,
                                    passed |-> caller.case_passed])]
    /\ RunnerOnly

\* the loop is over: the summary is logged and the function returns
Summarize ==
    /\ Running
    /\ caller.at = "case"
    /\ caller.i > Len(caller.test_cases)
    /\ LET passed_count ==
               Cardinality({k \in DOMAIN caller.test_results :
                               caller.test_results[k].passed})
       IN  caller' = [caller EXCEPT
                         !.at = "returned",
                         !.summary =
                             [total |-> Len(caller.test_results),
                              passed |-> passed_count,
                              failed |-> Len(caller.test_results)
                                             - passed_count]]
    /\ RunnerOnly

InitRunner ==
    /\ chain_config = <<>>
    /\ pc = "none"
    /\ idx = 0
    /\ execution_results = EmptyDict
    /\ chain_data = EmptyDict
    /\ base_parameters = EmptyDict
    /\ outcome = EmptyDict
    /\ calls = <<>>
    /\ executor = 1
    /\ returned = <<>>
    /\ caller \in { RunnerStarted(l) :
                      l \in UNION { [1..n -> TestCases] : n \in 1..MaxCases } }
    /\ call = [shape |-> "none"]
    /\ frame = [at |-> "none"]
    /\ trace = <<>>
    /\ fn_args = NoCall
    /\ fn_value = NoValue

NextRunner ==
    \/ BeginCase
    \/ CallPreSql
    \/ PreSqlReturns
    \/ ExecuteSingle
    \/ ExecuteChain
    \/ CallPostSql
    \/ PostSqlReturns
    \/ ValidationReturns
    \/ CallCleanupSql
    \/ CleanupReturns
    \/ HandleException
    \/ RecordCase
    \/ Summarize
    \/ EnterList
    \/ EnterListFails
    \/ RunQuery
    \/ RunStatement
    \/ StatementFails
    \/ FetchFails
    \/ LeaveList
    \/ CallValidate

SpecRunner == InitRunner /\ [][NextRunner]_vars


(***************************************************************************)
(* Properties of the fixture runner.                                       *)
(***************************************************************************)
\* C33: a fixture case that raises is recorded, not fatal.  When running a
\* case (its pre SQL, call or chain, post SQL, validation, cleanup) raises,
\* the exception does not leave test_stored_procedures: the case is
\* recorded as failed, the remaining cases are run, and the summary counts
\* every case of the list.
C33_RaisingCaseRecorded ==
    Running =>
        /\ caller.at # "escaped"
        /\ (caller.at = "record" /\ caller.exc # "") => ~caller.case_passed
        /\ caller.at = "returned" =>
               /\ Len(caller.test_results) = Len(caller.test_cases)
               /\ caller.summary.total = Len(caller.test_cases)


\* the position of the case whose locals the runner holds: the one it is
\* at, or the one it has just recorded
HeldCase == IF caller.at \in {"case", "returned"} THEN caller.i - 1
            ELSE caller.i

\* a post statement of the held case failed at a position that has an
\* expectation
FailedWhereExpected ==
    /\ Running
    /\ caller.post_results # <<>>
    /\ \E p \in DOMAIN caller.post_results :
           /\ caller.post_results[p] = FailureEntry
           /\ p <= Len(Get(caller.test_cases[HeldCase],
                           "expected_post_state", <<>>))

\* C31: a failed post-SQL statement fails the case when validated.  When a
\* post statement fails to execute and the expected post state has an entry
\* at its position, the statements after it were still executed (the post
\* results hold an entry for each), the validation returns failure, and the
\* case is recorded as failed.
C31_FailedPostStatementFailsCase ==
    FailedWhereExpected =>
        /\ Len(caller.post_results)
               = Len(caller.test_cases[HeldCase]["post_sql"])
        /\ caller.at # "validate" => caller.validation = PyBool(FALSE)
        /\ caller.at # "escaped"
        /\ caller.at \in {"record", "case", "returned"} =>
               ~caller.case_passed
        /\ caller.at \in {"case", "returned"} =>
               caller.test_results[HeldCase] =
                   [case |-> HeldCase, passed |-> FALSE]


\* the chain of the held case returned an outcome with success = False
ChainAborted ==
    /\ "success" \in DOMAIN caller.chain_result
    /\ ~caller.chain_result.success

\* the lists a case has, and the sessions opened since the case began (one
\* by each list that was run)
ListsOf(case) ==
    {key \in {"pre_sql", "post_sql", "cleanup_sql"} : Has(case, key)}

OpenedSessions == {j \in DOMAIN trace : trace[j].op = "open"}

\* post_sql and expected_post_state are both present
ValidationPerformed(case) ==
    Has(case, "post_sql") /\ Has(case, "expected_post_state")

\* C39: fixture verdict inputs.  A case is recorded as passed iff no
\* exception was raised while running it and the post-state validation, when
\* it was performed, passed; a case whose exception is being handled has no
\* result entry; and a recorded case whose chain outcome has success = False
\* has run its post and cleanup lists like any other.
C39_FixtureVerdictInputs ==
    Running =>
        /\ (caller.at \in {"case", "returned"} /\ HeldCase >= 1) =>
               LET case == caller.test_cases[HeldCase]
               IN  /\ caller.test_results[HeldCase].passed
                          <=> /\ caller.exc = ""
                              /\ ValidationPerformed(case) =>
                                     caller.validation = PyBool(TRUE)
                   /\ ChainAborted =>
                          Cardinality(OpenedSessions)
                              = Cardinality(ListsOf(case))
        /\ caller.at \in {"except", "escaped"} =>
               Len(caller.test_results) < caller.i

\* an aborted chain whose post and cleanup lists were run and whose
\* validation passed is recorded as passed
C39_Witness ==
    /\ Running
    /\ caller.at = "case"
    /\ HeldCase >= 1
    /\ ChainAborted
    /\ caller.validation = PyBool(TRUE)
    /\ Cardinality(OpenedSessions) = 3
    /\ caller.test_results[HeldCase].passed

=============================================================================
